---- MODULE Spec2Model ----
(***************************************************************************)
(* Personal-Wellness-Tracker: the validation pipeline (data_validation.py, *)
(* data_formatting.py), the CSV storage layer (data_io.py) and the form's  *)
(* submit step (entry_page_gui.py, gui.py) as a state machine.             *)
(*                                                                         *)
(* Texts are TLA+ strings used as sequences of one-character strings, so   *)
(* parsing, trimming, formatting and comparing are computed character by  *)
(* character, as the Python code does.                                     *)
(***************************************************************************)
EXTENDS Integers, Sequences, FiniteSets, TLC

VARIABLES
    csv,      \* the file at CSV_PATH: folder / file existence, header line, data lines
    pre,      \* the file as it was when the last operation started
    op,       \* the last operation run
    arg,      \* the argument of the last call: an entry dict, sort settings, texts
    ret,      \* what the last operation returned ("raised" if it raised)
    payload,  \* the eleven raw form texts of the last submission / validation
    entry,    \* the entry dict create_daily_entry returned
    errors,   \* the error dict create_daily_entry returned
    listing   \* the rows the last read_entries call returned

vars == <<csv, pre, op, arg, ret, payload, entry, errors, listing>>

(***************************************************************************)
(* Python text primitives                                                  *)
(***************************************************************************)

Char(s, i) == SubSeq(s, i, i)

\* The characters the model's texts are written in, in ascending code point
\* order (Python compares str values code point by code point).
CodeOrder == " +,-.0123456789:ABCDEFGHIJKLMNOPQRSTUVWXYZabcdefghijklmnopqrstuvwxyz"

Digits == "0123456789"

UpperCase == "ABCDEFGHIJKLMNOPQRSTUVWXYZ"

LowerCase == "abcdefghijklmnopqrstuvwxyz"

InStr(c, alphabet) == \E i \in 1..Len(alphabet) : Char(alphabet, i) = c

IndexOf(c, alphabet) == CHOOSE i \in 1..Len(alphabet) : Char(alphabet, i) = c

CharsOf(alphabet) == {Char(alphabet, i) : i \in 1..Len(alphabet)}

\* the rank of each character in code point order
OrdTable == [c \in CharsOf(CodeOrder) |-> IndexOf(c, CodeOrder)]

Ord(c) == OrdTable[c]

IsSpace(c) == c = " "

DigitTable == [c \in CharsOf(Digits) |-> IndexOf(c, Digits) - 1]

IsDigit(c) == c \in DOMAIN DigitTable

DigitVal(c) == DigitTable[c]

SetMin(S) == CHOOSE x \in S : \A y \in S : x <= y

SetMax(S) == CHOOSE x \in S : \A y \in S : x >= y

\* str.strip(): from the first to the last character that is no whitespace
strip(s) ==
    LET kept == {i \in 1..Len(s) : ~IsSpace(Char(s, i))}
    IN  IF kept = {} THEN "" ELSE SubSeq(s, SetMin(kept), SetMax(kept))

LowerTable == [c \in CharsOf(UpperCase) |-> Char(LowerCase, IndexOf(c, UpperCase))]

LowerChar(c) == IF c \in DOMAIN LowerTable THEN LowerTable[c] ELSE c

RECURSIVE LowerFrom(_, _)
LowerFrom(s, i) ==
    IF i > Len(s) THEN "" ELSE LowerChar(Char(s, i)) \o LowerFrom(s, i + 1)

\* str.lower()
lower(s) == LowerFrom(s, 1)

\* a < b on str: the first differing code point decides, a proper prefix is smaller
StrLess(a, b) ==
    LET n == IF Len(a) < Len(b) THEN Len(a) ELSE Len(b)
        differ == {i \in 1..n : Char(a, i) # Char(b, i)}
    IN  IF differ = {} THEN Len(a) < Len(b)
        ELSE Ord(Char(a, SetMin(differ))) < Ord(Char(b, SetMin(differ)))

AllDigits(s) == s # "" /\ \A i \in 1..Len(s) : IsDigit(Char(s, i))

\* the number the first k characters of s spell
RECURSIVE DigitsValueUpTo(_, _)
DigitsValueUpTo(s, k) ==
    IF k = 0 THEN 0 ELSE 10 * DigitsValueUpTo(s, k - 1) + DigitVal(Char(s, k))

DigitsValue(s) == DigitsValueUpTo(s, Len(s))

IsSign(c) == c = "+" \/ c = "-"

Unsigned(s) == IF s # "" /\ IsSign(Char(s, 1)) THEN SubSeq(s, 2, Len(s)) ELSE s

\* int(s) succeeds: surrounding whitespace, one optional sign, decimal digits
IsIntLiteral(s) == AllDigits(Unsigned(strip(s)))

\* int(s) for a text int() accepts
IntValue(s) ==
    LET t == strip(s)
        m == DigitsValue(Unsigned(t))
    IN  IF Char(t, 1) = "-" THEN 0 - m ELSE m

\* str(n) for n >= 0
RECURSIVE NatToText(_)
NatToText(n) ==
    IF n < 10 THEN Char(Digits, n + 1)
    ELSE NatToText(n \div 10) \o Char(Digits, (n % 10) + 1)

\* str(n)
IntToText(n) == IF n < 0 THEN "-" \o NatToText(0 - n) ELSE NatToText(n)

RECURSIVE Zeros(_)
Zeros(k) == IF k <= 0 THEN "" ELSE "0" \o Zeros(k - 1)

ZeroFill(s, width) == Zeros(width - Len(s)) \o s

\* a variant of the format that writes the number without padding
FormatUnpadded(n, width) == IntToText(n)

\* f"{n:0{width}d}": zeros between the sign and the digits, the sign counts in the width
FormatZeroPadded(n, width) ==
    IF n < 0 THEN "-" \o ZeroFill(NatToText(0 - n), width - 1)
    ELSE ZeroFill(NatToText(n), width)

(***************************************************************************)
(* Python values held in an entry dict or returned by csv.DictReader       *)
(***************************************************************************)

StrV(s) == [t |-> "str", s |-> s, n |-> 0, den |-> 1, neg |-> FALSE]

IntV(n) == [t |-> "int", s |-> "", n |-> n, den |-> 1, neg |-> FALSE]

\* a finite float of magnitude n / den (den a power of ten) and sign bit neg
FloatV(n, den, neg) == [t |-> "float", s |-> "", n |-> n, den |-> den, neg |-> neg]

InfV(neg) == [t |-> "inf", s |-> "", n |-> 0, den |-> 1, neg |-> neg]

NanV == [t |-> "nan", s |-> "", n |-> 0, den |-> 1, neg |-> FALSE]

NoneV == [t |-> "none", s |-> "", n |-> 0, den |-> 1, neg |-> FALSE]

\* what a call leaves when it raises ValueError instead of returning
ValueErrorV == [t |-> "ValueError", s |-> "", n |-> 0, den |-> 1, neg |-> FALSE]

\* int(s): the number, or ValueError for a text that is no integer literal
PyInt(s) == IF IsIntLiteral(s) THEN IntV(IntValue(s)) ELSE ValueErrorV

\* repr of a float that round(x, 1) returned: den = 10
FloatText(v) ==
    (IF v.neg THEN "-" ELSE "") \o NatToText(v.n \div 10) \o "." \o NatToText(v.n % 10)

\* str(v)
PyStr(v) ==
    CASE v.t = "str" -> v.s
      [] v.t = "int" -> IntToText(v.n)
      [] v.t = "float" -> FloatText(v)
      [] v.t = "nan" -> "nan"
      [] v.t = "inf" -> IF v.neg THEN "-inf" ELSE "inf"
      [] v.t = "none" -> "None"

\* the text csv.writer puts in a cell: None becomes the empty text, anything else its str
CsvText(v) == IF v.t = "none" THEN "" ELSE PyStr(v)

\* dict.get(k, default)
Get(d, k, default) == IF k \in DOMAIN d THEN d[k] ELSE default

(***************************************************************************)
(* data_io.py: the CSV store                                               *)
(***************************************************************************)

_FIELDNAMES ==
    <<"date", "sleep_minutes", "exercise_minutes", "mood_scale", "mood_tags",
      "activities", "notes">>

\* no folder, no file
NoFile == [folder |-> FALSE, exists |-> FALSE, header |-> <<>>, rows |-> <<>>]

\* a variant that writes the header whether or not the file is there
ensure_csv_exists_truncating(f) ==
    [folder |-> TRUE, exists |-> TRUE, header |-> _FIELDNAMES, rows |-> <<>>]


ensure_csv_exists(f) ==
    IF f.exists THEN [f EXCEPT !.folder = TRUE]
    ELSE [folder |-> TRUE, exists |-> TRUE, header |-> _FIELDNAMES, rows |-> <<>>]

\* csv.DictReader on one data line: cells keyed by the header line, a key past the
\* line's last cell gets None
RowDict(header, cells) ==
    [k \in {header[i] : i \in 1..Len(header)} |->
        LET i == CHOOSE j \in 1..Len(header) :
                     header[j] = k /\ \A m \in (j + 1)..Len(header) : header[m] # k
        IN  IF i <= Len(cells) THEN StrV(cells[i]) ELSE NoneV]

NonBlankLine(cells) == cells # <<>>

\* a variant that hands the rows back in date order
read_entries_sorted(f) ==
    LET g == ensure_csv_exists(f)
        lines == SelectSeq(g.rows, NonBlankLine)
        keyed == [i \in 1..Len(lines) |-> RowDict(g.header, lines[i])]
    IN  [r \in 1..Len(keyed) |->
            keyed[CHOOSE i \in 1..Len(keyed) :
                Cardinality({j \in 1..Len(keyed) :
                    \/ StrLess(keyed[j]["date"].s, keyed[i]["date"].s)
                    \/ keyed[j]["date"].s = keyed[i]["date"].s /\ j < i}) = r - 1]]

\* what read_entries returns; the file it leaves behind is ensure_csv_exists(f)
read_entries(f) ==
    LET g == ensure_csv_exists(f)
        lines == SelectSeq(g.rows, NonBlankLine)
    IN  [i \in 1..Len(lines) |-> RowDict(g.header, lines[i])]

\* safe_row = {k: row.get(k, "") for k in _FIELDNAMES}, as writer.writerow writes it
CsvLine(row) ==
    [j \in 1..Len(_FIELDNAMES) |-> CsvText(Get(row, _FIELDNAMES[j], StrV("")))]

\* a variant that writes the rows in date order
write_entries_sorted(f, rows) ==
    LET key(i) == Get(rows[i], "date", StrV("")).s
        earlier(b, a) == StrLess(key(b), key(a)) \/ (key(b) = key(a) /\ b < a)
        ordered == [r \in 1..Len(rows) |->
                       rows[CHOOSE a \in 1..Len(rows) :
                           Cardinality({b \in 1..Len(rows) : earlier(b, a)}) = r - 1]]
    IN  [ensure_csv_exists(f) EXCEPT
            !.header = _FIELDNAMES,
            !.rows = [i \in 1..Len(rows) |-> CsvLine(ordered[i])]]

write_entries(f, rows) ==
    [ensure_csv_exists(f) EXCEPT
        !.header = _FIELDNAMES,
        !.rows = [i \in 1..Len(rows) |-> CsvLine(rows[i])]]

\* key=lambda r: r.get("date", "")
DateKey(row) == Get(row, "date", StrV(""))

\* rows[i] stands before rows[j] in sorted(rows, key=...): a smaller key, or an
\* equal key and an earlier place (sorted is stable)
Before(rows, i, j) ==
    \/ StrLess(DateKey(rows[i]).s, DateKey(rows[j]).s)
    \/ DateKey(rows[i]).s = DateKey(rows[j]).s /\ i < j

\* a variant that leaves the rows in the order they have
SortedByDateSkipped(rows) == rows

\* a variant that puts rows of one date in the reverse of the order they had
SortedByDateUnstable(rows) ==
    [r \in 1..Len(rows) |->
        rows[CHOOSE i \in 1..Len(rows) :
                 Cardinality({j \in 1..Len(rows) :
                     \/ StrLess(DateKey(rows[j]).s, DateKey(rows[i]).s)
                     \/ DateKey(rows[j]).s = DateKey(rows[i]).s /\ j > i}) = r - 1]]

\* sorted(rows, key=...) on str keys: ascending and stable
SortedByDate(rows) ==
    [r \in 1..Len(rows) |->
        rows[CHOOSE i \in 1..Len(rows) :
                 Cardinality({j \in 1..Len(rows) : Before(rows, j, i)}) = r - 1]]

\* sorted() raises TypeError as soon as it compares a key that is not a str
\* (None < "x", "x" < None and None < None all raise); with two or more rows every
\* key is compared at least once
SortRaises(rows) ==
    Len(rows) >= 2 /\ \E i \in 1..Len(rows) : DateKey(rows[i]).t # "str"

\* a variant of the loop that never replaces a row: every call appends
UpdatedRowsAppendOnly(rows, e, target_date) ==
    [rows |-> Append(rows, e), action |-> "inserted"]

\* a variant of the loop that merges the new fields into the old row
UpdatedRowsMerged(rows, e, target_date) ==
    LET merged(old) == [k \in DOMAIN old \cup DOMAIN e |->
                            IF k \in DOMAIN e THEN e[k] ELSE old[k]]
        replaced == [i \in 1..Len(rows) |->
                        IF Get(rows[i], "date", StrV("")) = StrV(target_date)
                        THEN merged(rows[i]) ELSE rows[i]]
        matched == \E i \in 1..Len(rows) :
                        Get(rows[i], "date", StrV("")) = StrV(target_date)
    IN [rows |-> IF matched THEN replaced ELSE Append(replaced, e),
        action |-> IF matched THEN "updated" ELSE "inserted"]

\* a variant of the loop that replaces the row but reports every call as an insert
UpdatedRowsUnreported(rows, e, target_date) ==
    LET replaced == [i \in 1..Len(rows) |->
                        IF Get(rows[i], "date", StrV("")) = StrV(target_date)
                        THEN e ELSE rows[i]]
        matched == \E i \in 1..Len(rows) :
                        Get(rows[i], "date", StrV("")) = StrV(target_date)
    IN [rows |-> IF matched THEN replaced ELSE Append(replaced, e),
        action |-> "inserted"]

\* a variant of the loop that keeps only the rows whose date has ten characters
UpdatedRowsDroppingMalformed(rows, e, target_date) ==
    LET kept == SelectSeq(rows, LAMBDA r : Len(Get(r, "date", StrV("")).s) = 10)
        replaced == [i \in 1..Len(kept) |->
                        IF Get(kept[i], "date", StrV("")) = StrV(target_date)
                        THEN e ELSE kept[i]]
        matched == \E i \in 1..Len(kept) :
                        Get(kept[i], "date", StrV("")) = StrV(target_date)
    IN [rows |-> IF matched THEN replaced ELSE Append(replaced, e),
        action |-> IF matched THEN "updated" ELSE "inserted"]

\* a variant of the loop that puts the entry in the place of the first row of
\* its date and leaves out the other rows of that date
UpdatedRowsReplacingOnce(rows, e, target_date) ==
    LET matches == {i \in 1..Len(rows) : Get(rows[i], "date", StrV("")) = StrV(target_date)}
        keep == {i \in 1..Len(rows) : i \notin matches \/ i = SetMin(matches)}
        kept == [r \in 1..Cardinality(keep) |->
                    LET i == CHOOSE k \in keep : Cardinality({j \in keep : j < k}) = r - 1
                    IN  IF i \in matches THEN e ELSE rows[i]]
    IN  [rows |-> IF matches = {} THEN Append(rows, e) ELSE kept,
         action |-> IF matches = {} THEN "inserted" ELSE "updated"]

\* lines 103-114: every row whose date equals target_date is replaced by the entry;
\* the entry is appended when none was
UpdatedRows(rows, e, target_date) ==
    LET replaced == [i \in 1..Len(rows) |->
                        IF Get(rows[i], "date", StrV("")) = StrV(target_date)
                        THEN e ELSE rows[i]]
        matched == \E i \in 1..Len(rows) :
                        Get(rows[i], "date", StrV("")) = StrV(target_date)
    IN  [rows |-> IF matched THEN replaced ELSE Append(replaced, e),
         action |-> IF matched THEN "updated" ELSE "inserted"]

\* a variant that writes the rows back in the order the loop left them
upsert_entry_unsorted(f, e) ==
    LET f1 == ensure_csv_exists(f)
        rows == read_entries(f1)
    IN  IF "date" \notin DOMAIN e THEN [file |-> f1, action |-> "raised"]
        ELSE LET u == UpdatedRows(rows, e, PyStr(e["date"]))
             IN  IF SortRaises(u.rows) THEN [file |-> f1, action |-> "raised"]
                 ELSE [file |-> write_entries(f1, u.rows), action |-> u.action]

\* upsert_entry: the file it leaves and what it returns; "raised" stands for the
\* KeyError of entry["date"] and the TypeError of sorted(), both raised before
\* write_entries is reached
upsert_entry(f, e) ==
    LET f1 == ensure_csv_exists(f)
        rows == read_entries(f1)
    IN  IF "date" \notin DOMAIN e THEN [file |-> f1, action |-> "raised"]
        ELSE LET u == UpdatedRows(rows, e, PyStr(e["date"]))
             IN  IF SortRaises(u.rows) THEN [file |-> f1, action |-> "raised"]
                 ELSE [file |-> write_entries(f1, SortedByDate(u.rows)),
                       action |-> u.action]

\* a variant that keeps one row of each date, the first one
sort_csv_by_date_unique(f) ==
    LET rows == SortedByDate(read_entries(f))
        first(i) == \A j \in 1..(i - 1) : DateKey(rows[j]) # DateKey(rows[i])
        kept == {i \in 1..Len(rows) : first(i)}
    IN  write_entries(ensure_csv_exists(f),
            [r \in 1..Cardinality(kept) |->
                rows[CHOOSE i \in kept : Cardinality({j \in kept : j < i}) = r - 1]])

\* sort_csv_by_date: rows read from the file always have str dates
sort_csv_by_date(f) == write_entries(ensure_csv_exists(f), SortedByDate(read_entries(f)))

(***************************************************************************)
(* data_formatting.py                                                      *)
(***************************************************************************)

_MONTHS ==
    "january" :> 1 @@ "jan" :> 1 @@ "1" :> 1 @@ "01" :> 1 @@
    "february" :> 2 @@ "feb" :> 2 @@ "2" :> 2 @@ "02" :> 2 @@
    "march" :> 3 @@ "mar" :> 3 @@ "3" :> 3 @@ "03" :> 3 @@
    "april" :> 4 @@ "apr" :> 4 @@ "4" :> 4 @@ "04" :> 4 @@
    "may" :> 5 @@ "5" :> 5 @@ "05" :> 5 @@
    "june" :> 6 @@ "jun" :> 6 @@ "6" :> 6 @@ "06" :> 6 @@
    "july" :> 7 @@ "jul" :> 7 @@ "7" :> 7 @@ "07" :> 7 @@
    "august" :> 8 @@ "aug" :> 8 @@ "8" :> 8 @@ "08" :> 8 @@
    "september" :> 9 @@ "sep" :> 9 @@ "sept" :> 9 @@ "9" :> 9 @@ "09" :> 9 @@
    "october" :> 10 @@ "oct" :> 10 @@ "10" :> 10 @@
    "november" :> 11 @@ "nov" :> 11 @@ "11" :> 11 @@
    "december" :> 12 @@ "dec" :> 12 @@ "12" :> 12

\* a variant that trims and keeps the case
normalize_text_trimmed(text) == strip(text)

normalize_text(text) == lower(strip(text))

\* a variant that knows the months by name alone
month_to_number_names_only(month_text) ==
    LET key == normalize_text(month_text)
    IN  IF key \in DOMAIN _MONTHS /\ ~AllDigits(key) THEN IntV(_MONTHS[key]) ELSE NoneV

\* IntV(1..12), or NoneV
month_to_number(month_text) ==
    LET key == normalize_text(month_text)
    IN  IF key \in DOMAIN _MONTHS THEN IntV(_MONTHS[key]) ELSE NoneV

\* a variant without the try block: the ValueError of int() leaves the function
hm_to_minutes_uncaught(hours_text, minutes_text, require_any) ==
    LET h_clean == strip(hours_text)
        m_clean == strip(minutes_text)
        h_text == IF h_clean = "" THEN "0" ELSE h_clean
        m_text == IF m_clean = "" THEN "0" ELSE m_clean
    IN  IF require_any /\ h_clean = "" /\ m_clean = "" THEN NoneV
        ELSE IF PyInt(h_text) = ValueErrorV \/ PyInt(m_text) = ValueErrorV
        THEN ValueErrorV
        ELSE IntV((PyInt(h_text).n * 60) + PyInt(m_text).n)

\* a variant that takes two blank fields as invalid whatever require_any says
hm_to_minutes_required(hours_text, minutes_text, require_any) ==
    LET h_clean == strip(hours_text)
        m_clean == strip(minutes_text)
        h_text == IF h_clean = "" THEN "0" ELSE h_clean
        m_text == IF m_clean = "" THEN "0" ELSE m_clean
    IN  IF h_clean = "" /\ m_clean = "" THEN NoneV
        ELSE IF PyInt(h_text) = ValueErrorV \/ PyInt(m_text) = ValueErrorV
        THEN NoneV
        ELSE IntV((PyInt(h_text).n * 60) + PyInt(m_text).n)

\* a variant that takes the two numbers as a clock reading: no negative
\* number, minutes below 60
hm_to_minutes_clock(hours_text, minutes_text, require_any) ==
    LET h_clean == strip(hours_text)
        m_clean == strip(minutes_text)
        h_text == IF h_clean = "" THEN "0" ELSE h_clean
        m_text == IF m_clean = "" THEN "0" ELSE m_clean
    IN  IF require_any /\ h_clean = "" /\ m_clean = "" THEN NoneV
        ELSE IF PyInt(h_text) = ValueErrorV \/ PyInt(m_text) = ValueErrorV
        THEN NoneV
        ELSE IF PyInt(h_text).n < 0 \/ PyInt(m_text).n < 0 \/ PyInt(m_text).n >= 60
        THEN NoneV
        ELSE IntV((PyInt(h_text).n * 60) + PyInt(m_text).n)

\* IntV(total), or NoneV
hm_to_minutes(hours_text, minutes_text, require_any) ==
    LET h_clean == strip(hours_text)
        m_clean == strip(minutes_text)
        h_text == IF h_clean = "" THEN "0" ELSE h_clean
        m_text == IF m_clean = "" THEN "0" ELSE m_clean
    IN  IF require_any /\ h_clean = "" /\ m_clean = "" THEN NoneV
        ELSE IF PyInt(h_text) = ValueErrorV \/ PyInt(m_text) = ValueErrorV
        THEN NoneV                                        \* except ValueError
        ELSE IntV((PyInt(h_text).n * 60) + PyInt(m_text).n)

\* a variant that writes the hours without padding
minutes_to_hhmm_unpadded(total_minutes) ==
    IntToText(total_minutes \div 60) \o ":" \o FormatZeroPadded(total_minutes % 60, 2)

\* f"{h:02d}:{m:02d}" of h = total_minutes // 60 and m = total_minutes % 60 (floor
\* division, the remainder is never negative)
minutes_to_hhmm(total_minutes) ==
    LET h == total_minutes \div 60
        m == total_minutes % 60
    IN  FormatZeroPadded(h, 2) \o ":" \o FormatZeroPadded(m, 2)

\* a variant that writes a component that is zero next to one that is not
minutes_to_human_keeping_zero(total_minutes, abbreviated) ==
    LET h == total_minutes \div 60
        m == total_minutes % 60
        hours == IF abbreviated THEN IntToText(h) \o "h"
                 ELSE IntToText(h) \o " " \o (IF h = 1 THEN "hour" ELSE "hours")
        minutes == IF abbreviated THEN IntToText(m) \o "min"
                   ELSE IntToText(m) \o " " \o (IF m = 1 THEN "minute" ELSE "minutes")
    IN  IF h <= 0 /\ m <= 0 THEN (IF abbreviated THEN "0min" ELSE "0 minutes")
        ELSE hours \o " " \o minutes

\* " ".join(parts)
RECURSIVE JoinFrom(_, _, _)
JoinFrom(parts, sep, i) ==
    IF i > Len(parts) THEN ""
    ELSE IF i = Len(parts) THEN parts[i]
    ELSE parts[i] \o sep \o JoinFrom(parts, sep, i + 1)

join(sep, parts) == JoinFrom(parts, sep, 1)

\* parts gets the hours when h > 0 and the minutes when m > 0, as "{h}h" and
\* "{m}min" or with the word in singular or plural; no parts give "0min" or
\* "0 minutes"
minutes_to_human(total_minutes, abbreviated) ==
    LET h == total_minutes \div 60
        m == total_minutes % 60
        hour_word == IF h = 1 THEN "hour" ELSE "hours"
        minute_word == IF m = 1 THEN "minute" ELSE "minutes"
        hours == IF h > 0
                 THEN <<IF abbreviated THEN IntToText(h) \o "h"
                        ELSE IntToText(h) \o " " \o hour_word>>
                 ELSE <<>>
        parts == IF m > 0
                 THEN hours \o <<IF abbreviated THEN IntToText(m) \o "min"
                                 ELSE IntToText(m) \o " " \o minute_word>>
                 ELSE hours
    IN  IF parts = <<>> THEN (IF abbreviated THEN "0min" ELSE "0 minutes")
        ELSE join(" ", parts)

(***************************************************************************)
(* display_format.py                                                       *)
(***************************************************************************)

\* display_format.minutes_to_hhmm, the function of the same name and body in
\* the display module
display_minutes_to_hhmm(total_minutes) ==
    LET h == total_minutes \div 60
        m == total_minutes % 60
    IN  FormatZeroPadded(h, 2) \o ":" \o FormatZeroPadded(m, 2)

\* str.split(sep) for a separator of one character: the pieces between the
\* separators, in order
RECURSIVE SplitFrom(_, _, _)
SplitFrom(s, sep, i) ==
    LET seps == {j \in i..Len(s) : Char(s, j) = sep}
    IN  IF seps = {} THEN <<SubSeq(s, i, Len(s))>>
        ELSE <<SubSeq(s, i, SetMin(seps) - 1)>> \o SplitFrom(s, sep, SetMin(seps) + 1)

split(s, sep) == SplitFrom(s, sep, 1)

\* h, m = map(int, hhmm.split(':')); return (h * 60) + m. ValueError when the
\* text has not two pieces or a piece is no integer
hhmm_to_minutes(hhmm) ==
    LET parts == split(hhmm, ":")
    IN  IF Len(parts) # 2 THEN ValueErrorV
        ELSE IF PyInt(parts[1]) = ValueErrorV \/ PyInt(parts[2]) = ValueErrorV
        THEN ValueErrorV
        ELSE IntV((PyInt(parts[1]).n * 60) + PyInt(parts[2]).n)

(***************************************************************************)
(* data_validation.py: parsing helpers                                     *)
(***************************************************************************)

parse_int(text, field_name) ==
    LET cleaned == strip(text)
    IN  IF cleaned = ""
        THEN [val |-> NoneV, err |-> StrV(field_name \o " is required.")]
        ELSE IF PyInt(cleaned) # ValueErrorV
        THEN [val |-> PyInt(cleaned), err |-> NoneV]
        ELSE \* except ValueError
             [val |-> NoneV, err |-> StrV(field_name \o " must be a whole number.")]

\* the index of the first c in s, 0 when there is none
FirstIndex(s, c) ==
    IF InStr(c, s)
    THEN CHOOSE i \in 1..Len(s) : Char(s, i) = c /\ \A j \in 1..(i - 1) : Char(s, j) # c
    ELSE 0

RECURSIVE Pow10(_)
Pow10(k) == IF k = 0 THEN 1 ELSE 10 * Pow10(k - 1)

\* The pieces of a trimmed, lower-cased text t handed to float(): sign, integer
\* digits, fraction digits and exponent of  [sign] digits [. digits] [e [sign] digits]
FloatPartsOf(t) ==
    LET body == Unsigned(t)
        ePos == FirstIndex(body, "e")
        mant == IF ePos = 0 THEN body ELSE SubSeq(body, 1, ePos - 1)
        dot == FirstIndex(mant, ".")
    IN  [neg |-> t # "" /\ Char(t, 1) = "-",
         body |-> body,
         ip |-> IF dot = 0 THEN mant ELSE SubSeq(mant, 1, dot - 1),
         fp |-> IF dot = 0 THEN "" ELSE SubSeq(mant, dot + 1, Len(mant)),
         expo |-> IF ePos = 0 THEN "0" ELSE SubSeq(body, ePos + 1, Len(body))]

\* float() ignores case and surrounding whitespace
FloatParts(text) == FloatPartsOf(lower(strip(text)))

IsSpecialFloat(parts) == parts.body \in {"inf", "infinity", "nan"}

IsDecimalFloat(parts) ==
    /\ parts.ip = "" \/ AllDigits(parts.ip)
    /\ parts.fp = "" \/ AllDigits(parts.fp)
    /\ parts.ip \o parts.fp # ""
    /\ AllDigits(Unsigned(parts.expo))

\* float(text) succeeds, parts being the pieces of text
FloatAccepts(parts) == IsSpecialFloat(parts) \/ IsDecimalFloat(parts)

\* digits * 10^ex / den as a float value
Scaled(digits, den, ex, neg) ==
    IF ex >= 0 THEN FloatV(digits * Pow10(ex), den, neg)
    ELSE FloatV(digits, den * Pow10(0 - ex), neg)

\* float(text) for a text float() accepts, parts being its pieces
FloatOf(parts) ==
    IF parts.body = "nan" THEN NanV
    ELSE IF parts.body \in {"inf", "infinity"} THEN InfV(parts.neg)
    ELSE Scaled(DigitsValue(parts.ip \o parts.fp), Pow10(Len(parts.fp)),
                IntValue(parts.expo), parts.neg)

\* lines 58-61: try float(cleaned), except ValueError
\* float(cleaned), cleaned being the text whose parts are given: the number, or
\* ValueError
PyFloat(parts) == IF FloatAccepts(parts) THEN FloatOf(parts) ELSE ValueErrorV

TryFloat(parts, field_name) ==
    IF PyFloat(parts) # ValueErrorV
    THEN [val |-> PyFloat(parts), err |-> NoneV]
    ELSE \* except ValueError
         [val |-> NoneV, err |-> StrV(field_name \o " must be a number (example: 7.5).")]

parse_float(text, field_name) ==
    IF strip(text) = ""
    THEN [val |-> NoneV, err |-> StrV(field_name \o " is required.")]
    ELSE TryFloat(FloatParts(strip(text)), field_name)

(***************************************************************************)
(* data_validation.py: validators                                          *)
(***************************************************************************)

\* a calendar that takes every fourth year for a leap year
IsLeapYearEveryFourth(y) == y % 4 = 0


IsLeapYear(y) == (y % 4 = 0 /\ y % 100 # 0) \/ y % 400 = 0

DaysInMonth(y, m) ==
    IF m = 2 THEN (IF IsLeapYear(y) THEN 29 ELSE 28)
    ELSE IF m \in {4, 6, 9, 11} THEN 30 ELSE 31

\* the text the %m directive consumes at the head of s ("" when it matches nothing):
\* 1[0-2] | 0[1-9] | [1-9], the first alternative that matches
StrptimeMonth(s) ==
    IF Len(s) >= 2 /\ Char(s, 1) = "1" /\ InStr(Char(s, 2), "012") THEN SubSeq(s, 1, 2)
    ELSE IF Len(s) >= 2 /\ Char(s, 1) = "0" /\ InStr(Char(s, 2), "123456789")
    THEN SubSeq(s, 1, 2)
    ELSE IF Len(s) >= 1 /\ InStr(Char(s, 1), "123456789") THEN SubSeq(s, 1, 1)
    ELSE ""

\* the text the %d directive consumes at the head of s:
\* 3[0-1] | [1-2]\d | 0[1-9] | [1-9] | " "[1-9], the first alternative that matches
StrptimeDay(s) ==
    IF Len(s) >= 2 /\ Char(s, 1) = "3" /\ InStr(Char(s, 2), "01") THEN SubSeq(s, 1, 2)
    ELSE IF Len(s) >= 2 /\ InStr(Char(s, 1), "12") /\ IsDigit(Char(s, 2))
    THEN SubSeq(s, 1, 2)
    ELSE IF Len(s) >= 2 /\ Char(s, 1) = "0" /\ InStr(Char(s, 2), "123456789")
    THEN SubSeq(s, 1, 2)
    ELSE IF Len(s) >= 1 /\ InStr(Char(s, 1), "123456789") THEN SubSeq(s, 1, 1)
    ELSE IF Len(s) >= 2 /\ Char(s, 1) = " " /\ InStr(Char(s, 2), "123456789")
    THEN SubSeq(s, 1, 2)
    ELSE ""

\* datetime.strptime(s, "%Y-%m-%d") returns instead of raising ValueError: four
\* digits, "-", a month, "-", a day, nothing left over, and a date that exists
StrptimeAccepts(s) ==
    /\ Len(s) >= 5
    /\ AllDigits(SubSeq(s, 1, 4))
    /\ Char(s, 5) = "-"
    /\ LET afterYear == SubSeq(s, 6, Len(s))
           mm == StrptimeMonth(afterYear)
           afterMonth == SubSeq(afterYear, Len(mm) + 1, Len(afterYear))
           dd == StrptimeDay(SubSeq(afterMonth, 2, Len(afterMonth)))
           y == DigitsValue(SubSeq(s, 1, 4))
       IN  /\ mm # ""
           /\ afterMonth # "" /\ Char(afterMonth, 1) = "-"
           /\ dd # ""
           /\ Len(afterMonth) = 1 + Len(dd)
           /\ y >= 1
           /\ IntValue(dd) <= DaysInMonth(y, IntValue(mm))

\* datetime.strptime(s, "%Y-%m-%d"): returns (the datetime is not used), or
\* raises ValueError
Strptime(s) == IF StrptimeAccepts(s) THEN NoneV ELSE ValueErrorV

\* a variant that takes every text for a date
validate_iso_date_skipped(iso_date) == NoneV

validate_iso_date(iso_date) ==
    IF Strptime(iso_date) # ValueErrorV THEN NoneV
    ELSE StrV("Invalid date.")                            \* except ValueError

MaxMinutes == 1440

\* a variant that checks the upper end only
validate_total_minutes_upper_only(total_minutes, field_name) ==
    IF total_minutes > MaxMinutes
    THEN StrV(field_name \o " must be between 0 and 24 hours.")
    ELSE NoneV


validate_total_minutes(total_minutes, field_name) ==
    IF total_minutes < 0 \/ total_minutes > MaxMinutes
    THEN StrV(field_name \o " must be between 0 and 24 hours.")
    ELSE NoneV

\* x < 0.0 on a float: false for nan and for either zero
FloatBelowZero(x) ==
    \/ x.t = "inf" /\ x.neg
    \/ x.t = "float" /\ x.neg /\ x.n > 0

MaxMood == 10

\* x > 10.0 on a float: false for nan
FloatAboveTen(x) ==
    \/ x.t = "inf" /\ ~x.neg
    \/ x.t = "float" /\ ~x.neg /\ x.n > MaxMood * x.den

validate_mood_scale(mood_scale) ==
    IF FloatBelowZero(mood_scale) \/ FloatAboveTen(mood_scale)
    THEN StrV("Mood scale must be between 0.0 and 10.0.")
    ELSE NoneV

validate_required_text(text, field_name) ==
    IF strip(text) = "" THEN StrV(field_name \o " is required.") ELSE NoneV

(***************************************************************************)
(* data_validation.py: create_daily_entry                                  *)
(***************************************************************************)

\* The q in 0..99 for which round((10q + 5) / 100, 1) is (q + 1) / 10: the double
\* nearest to q.q5 lies above the midpoint, or on it with q odd (round half even).
TieRoundsUp ==
    {0, 4, 5, 6, 7, 10, 13, 15, 17, 18, 23, 24, 27, 28, 29, 33, 34, 37, 38, 39, 41,
     44, 46, 47, 49, 51, 54, 56, 57, 59, 61, 64, 66, 67, 69, 71, 74, 76, 77, 79, 80,
     81, 85, 86, 87, 90, 91, 95, 96, 97}

\* round(x, 1)
Round1(x) ==
    IF x.t # "float" THEN x
    ELSE LET q == (x.n * 10) \div x.den
             r == (x.n * 10) % x.den
             up == \/ 2 * r > x.den
                   \/ 2 * r = x.den /\ q \in TieRoundsUp
         IN  FloatV(IF up THEN q + 1 ELSE q, 10, x.neg)

\* errors[key] = message
Put(d, key, value) == (key :> value) @@ d

EmptyDict == [k \in {} |-> ""]

\* if cond: d[key] = value
PutIf(d, cond, key, value) == IF cond THEN Put(d, key, value) ELSE d

\* a variant of the return that hands back the record it built next to the errors
ReturnedWithDraft(errs, e) == [entry |-> e, errors |-> errs]

\* lines 222-237: return {}, errors when there are errors, else the entry built
\* from the parsed values (e) and an empty error map
Returned(errs, e) ==
    IF DOMAIN errs # {}
    THEN [entry |-> EmptyDict, errors |-> errs]
    ELSE [entry |-> e, errors |-> EmptyDict]

\* create_daily_entry once its six parsing calls have returned
Assemble(p, day, year, month_num, sleep_total, exercise_total, mood) ==
    LET errors1 == PutIf(EmptyDict, day.err # NoneV, "date_day", day.err.s)
        errors2 == PutIf(errors1, year.err # NoneV, "date_year", year.err.s)
        errors3 == PutIf(errors2, month_num = NoneV, "date_month",
                         "Month must be a real month (example: January).")
        parsed == {"date_day", "date_year", "date_month"} \cap DOMAIN errors3 = {}
        iso_candidate == FormatZeroPadded(year.val.n, 4) \o "-"
                         \o FormatZeroPadded(month_num.n, 2) \o "-"
                         \o FormatZeroPadded(day.val.n, 2)
        date_err == IF parsed THEN validate_iso_date(iso_candidate) ELSE NoneV
        errors4 == PutIf(errors3, date_err # NoneV, "date", "That date does not exist.")
        iso_date == IF parsed /\ date_err = NoneV THEN StrV(iso_candidate) ELSE NoneV
        sleep_err ==
            IF sleep_total = NoneV
            THEN StrV("Sleep time must include hours or minutes (numbers only).")
            ELSE validate_total_minutes(sleep_total.n, "Sleep time")
        errors5 == PutIf(errors4, sleep_err # NoneV, "sleep_time", sleep_err.s)
        exercise_err ==
            IF exercise_total = NoneV
            THEN StrV("Exercise time must include hours or minutes (numbers only).")
            ELSE validate_total_minutes(exercise_total.n, "Exercise time")
        errors6 == PutIf(errors5, exercise_err # NoneV, "exercise_time", exercise_err.s)
        mood_err == IF mood.err # NoneV THEN mood.err ELSE validate_mood_scale(mood.val)
        errors7 == PutIf(errors6, mood_err # NoneV, "mood_scale", mood_err.s)
        mood_tags_err == validate_required_text(p.mood_tags_text, "Mood tags")
        errors8 == PutIf(errors7, mood_tags_err # NoneV, "mood_tags", mood_tags_err.s)
        activities_err == validate_required_text(p.activities_text, "Activities")
        errors9 == PutIf(errors8, activities_err # NoneV, "activities", activities_err.s)
        notes_clean == strip(p.notes_text)
    IN  \* an exception that a callee let through ends the call
        IF \/ day = ValueErrorV \/ year = ValueErrorV \/ month_num = ValueErrorV
           \/ sleep_total = ValueErrorV \/ exercise_total = ValueErrorV
           \/ mood = ValueErrorV \/ date_err = ValueErrorV
        THEN ValueErrorV
        ELSE Returned(errors9,
                 [date |-> iso_date,
                  sleep_minutes |-> IntV(sleep_total.n),
                  exercise_minutes |-> IntV(exercise_total.n),
                  mood_scale |-> Round1(mood.val),
                  mood_tags |-> StrV(strip(p.mood_tags_text)),
                  activities |-> StrV(strip(p.activities_text)),
                  notes |-> StrV(notes_clean)])

create_daily_entry(p) ==
    Assemble(p,
             parse_int(p.date_day_text, "Day"),
             parse_int(p.date_year_text, "Year"),
             month_to_number(p.date_month_text),
             hm_to_minutes(p.sleep_hours_text, p.sleep_minutes_text, TRUE),
             hm_to_minutes(p.exercise_hours_text, p.exercise_minutes_text, TRUE),
             parse_float(p.mood_scale_text, "Mood scale"))

(***************************************************************************)
(* entry_page_gui.py / gui.py: the submit step                             *)
(***************************************************************************)

\* submit_entry on the file f with the form texts p: the file it leaves, the
\* (entry, errors) pair of create_daily_entry, and what upsert_entry returned
\* ("errors" when the step returned before calling it)
Saved(r, u) ==
    [file |-> u.file, action |-> u.action, entry |-> r.entry, errors |-> r.errors]

\* a variant of the handler that goes on to the store whatever the error map holds
AfterValidationNoReturn(f, r) == Saved(r, upsert_entry(f, r.entry))

\* a variant of the handler that reports the entry as saved and leaves the store
AfterValidationUnsaved(f, r) ==
    IF DOMAIN r.errors # {}
    THEN [file |-> f, action |-> "errors", entry |-> r.entry, errors |-> r.errors]
    ELSE [file |-> f, action |-> "inserted", entry |-> r.entry, errors |-> r.errors]

\* lines 385-391 of entry_page_gui.py, r being what create_daily_entry returned
AfterValidation(f, r) ==
    IF r = ValueErrorV
    THEN \* create_daily_entry raised: the handler ends there
         [file |-> f, action |-> "ValueError", entry |-> EmptyDict, errors |-> EmptyDict]
    ELSE IF DOMAIN r.errors # {}
    THEN [file |-> f, action |-> "errors", entry |-> r.entry, errors |-> r.errors]
    ELSE Saved(r, upsert_entry(f, r.entry))

submit_entry(f, p) == AfterValidation(f, create_daily_entry(p))

(***************************************************************************)
(* Inputs                                                                  *)
(***************************************************************************)

\* the eleven texts the form hands to create_daily_entry
FormTexts(d, m, y, sh, sm, eh, em, mood, tags, act, notes) ==
    [date_day_text |-> d, date_month_text |-> m, date_year_text |-> y,
     sleep_hours_text |-> sh, sleep_minutes_text |-> sm,
     exercise_hours_text |-> eh, exercise_minutes_text |-> em,
     mood_scale_text |-> mood, mood_tags_text |-> tags,
     activities_text |-> act, notes_text |-> notes]

NoPayload == FormTexts("", "", "", "", "", "", "", "", "", "", "")

EntryA ==
    [date |-> StrV("2024-06-15"), sleep_minutes |-> IntV(450),
     exercise_minutes |-> IntV(45), mood_scale |-> FloatV(80, 10, FALSE),
     mood_tags |-> StrV("happy"), activities |-> StrV("jogging, reading"),
     notes |-> StrV("")]

\* the same date as EntryA, every other field different
EntryB ==
    [date |-> StrV("2024-06-15"), sleep_minutes |-> IntV(0),
     exercise_minutes |-> IntV(1440), mood_scale |-> FloatV(100, 10, FALSE),
     mood_tags |-> StrV("tired"), activities |-> StrV("work"),
     notes |-> StrV("late")]

\* the same date again, most fields missing
EntryPartial == [date |-> StrV("2024-06-15"), sleep_minutes |-> IntV(30)]

EntryEarlier ==
    [date |-> StrV("2023-02-28"), sleep_minutes |-> IntV(480),
     exercise_minutes |-> IntV(0), mood_scale |-> FloatV(55, 10, FALSE),
     mood_tags |-> StrV("calm"), activities |-> StrV("walk"),
     notes |-> StrV("a, b")]

\* dates that are no YYYY-MM-DD: unparsable text, blank, None, no date key at all
EntryMalformed == [date |-> StrV("June 1"), notes |-> StrV("imported")]

EntryBlankDate == [date |-> StrV(""), mood_tags |-> StrV("none")]

EntryNoneDate == [date |-> NoneV, notes |-> StrV("x")]

EntryNoDate == [notes |-> StrV("x")]

\* the entry dicts handed straight to upsert_entry
UpsertEntries ==
    {EntryA, EntryB, EntryPartial, EntryEarlier, EntryMalformed, EntryBlankDate,
     EntryNoneDate, EntryNoDate}

\* the example of the specification: it validates to EntryA
PayloadA ==
    FormTexts("15", "June", "2024", "7", "30", "0", "45", "8.0", "happy",
              "jogging, reading", "")

\* the same day spelled differently, other values
PayloadSameDay ==
    FormTexts(" 15 ", "06", "+2024", "", "20", "24", "", "9.96", " calm ", "rest",
              " note ")

PayloadLeapDay ==
    FormTexts("29", "Feb", "2024", "8", "", "1", "5", "7.25", "ok", "swim", "")

PayloadNan ==
    FormTexts("28", "feb", "2023", "8", "0", "0", "0", "nan", "ok", "walk", "")

PayloadBadDate ==
    FormTexts("31", "February", "2023", "7", "30", "0", "45", "8.0", "happy",
              "jogging, reading", "")

PayloadThreeErrors ==
    FormTexts("x", "June", "2024", "7", "30", "0", "45", "11", "happy", " ", "")

\* the payloads the form submits in Spec
FormPayloads ==
    {PayloadA, PayloadSameDay, PayloadLeapDay, PayloadNan, PayloadBadDate,
     PayloadThreeErrors, NoPayload}

(***************************************************************************)
(* The state machine                                                       *)
(***************************************************************************)

\* nothing has run, nothing is on disk
Init ==
    /\ csv = NoFile
    /\ pre = NoFile
    /\ op = "init"
    /\ arg = EmptyDict
    /\ ret = "none"
    /\ payload = NoPayload
    /\ entry = EmptyDict
    /\ errors = EmptyDict
    /\ listing = <<>>

EnsureCsvExists ==
    /\ csv' = ensure_csv_exists(csv)
    /\ pre' = csv
    /\ op' = "ensure"
    /\ arg' = EmptyDict
    /\ ret' = "none"
    /\ payload' = NoPayload
    /\ entry' = EmptyDict
    /\ errors' = EmptyDict
    /\ listing' = <<>>

ReadEntries ==
    /\ csv' = ensure_csv_exists(csv)
    /\ listing' = read_entries(csv)
    /\ pre' = csv
    /\ op' = "read"
    /\ arg' = EmptyDict
    /\ ret' = "none"
    /\ payload' = NoPayload
    /\ entry' = EmptyDict
    /\ errors' = EmptyDict

\* the call upsert_entry(CSV_PATH, e) returned u
Upserted(e, u) ==
        /\ csv' = u.file
        /\ ret' = u.action
        /\ pre' = csv
        /\ op' = "upsert"
        /\ arg' = e
        /\ payload' = NoPayload
        /\ entry' = EmptyDict
        /\ errors' = EmptyDict
        /\ listing' = <<>>

UpsertEntry(e) == Upserted(e, upsert_entry(csv, e))

SortCsvByDate ==
    /\ csv' = sort_csv_by_date(csv)
    /\ pre' = csv
    /\ op' = "sort"
    /\ arg' = EmptyDict
    /\ ret' = "none"
    /\ payload' = NoPayload
    /\ entry' = EmptyDict
    /\ errors' = EmptyDict
    /\ listing' = <<>>

\* the submit step on the texts p ended as r
Submitted(p, r) ==
        /\ csv' = r.file
        /\ ret' = r.action
        /\ entry' = r.entry
        /\ errors' = r.errors
        /\ payload' = p
        /\ pre' = csv
        /\ op' = "submit"
        /\ arg' = r.entry
        /\ listing' = <<>>

\* what create_daily_entry returns for each payload of FormPayloads
ValidatedForms == [p \in FormPayloads |-> create_daily_entry(p)]

SubmitEntry(p) == Submitted(p, AfterValidation(csv, ValidatedForms[p]))

Next ==
    \/ EnsureCsvExists
    \/ ReadEntries
    \/ SortCsvByDate
    \/ \E e \in UpsertEntries : UpsertEntry(e)
    \/ \E p \in FormPayloads : SubmitEntry(p)

\* the storage layer and the form, from a missing store
Spec == Init /\ [][Next]_vars

(***************************************************************************)
(* A store edited by hand: any lines in any order, under the fixed header  *)
(***************************************************************************)

MaxEditedRows == 2

\* lines a user may have typed into the file: two lines of one date, an earlier
\* date, a date that is no YYYY-MM-DD
EditedLines ==
    {CsvLine(EntryA), CsvLine(EntryB), CsvLine(EntryEarlier), CsvLine(EntryMalformed)}

EditedFiles ==
    {[folder |-> TRUE, exists |-> TRUE, header |-> _FIELDNAMES, rows |-> r] :
        r \in UNION {[1..n -> EditedLines] : n \in 0..MaxEditedRows}}

InitEdited ==
    /\ csv \in EditedFiles
    /\ pre = csv
    /\ op = "init"
    /\ arg = EmptyDict
    /\ ret = "none"
    /\ payload = NoPayload
    /\ entry = EmptyDict
    /\ errors = EmptyDict
    /\ listing = <<>>

\* the same program, started on a hand-edited store
SpecEdited == InitEdited /\ [][Next]_vars

(***************************************************************************)
(* view_entries_page.py: the listing                                       *)
(***************************************************************************)

\* a < b on numbers (int or float); false when either is nan
NumLess(a, b) ==
    LET sa == IF a.neg THEN 0 - a.n ELSE a.n
        sb == IF b.neg THEN 0 - b.n ELSE b.n
    IN  CASE a.t = "nan" \/ b.t = "nan" -> FALSE
          [] a.t = "inf" -> a.neg /\ ~(b.t = "inf" /\ b.neg)
          [] b.t = "inf" -> ~b.neg
          [] OTHER -> sa * b.den < sb * a.den

\* a < b on two sort keys of one kind: texts by code point, numbers by value
KeyLess(a, b) == IF a.t = "str" THEN StrLess(a.s, b.s) ELSE NumLess(a, b)

\* float(value) inside try/except Exception: -1.0 for None and for a text that is
\* no number
_safe_float(value) ==
    IF value.t = "str" /\ PyFloat(FloatParts(value.s)) # ValueErrorV
    THEN PyFloat(FloatParts(value.s))
    ELSE FloatV(1, 1, TRUE)

\* int(float(value)) inside try/except Exception: truncation toward zero; -1 for
\* None, for a text that is no number, for nan (ValueError) and the infinities
\* (OverflowError)
_safe_int(value) ==
    IF value.t = "str" /\ PyFloat(FloatParts(value.s)).t = "float"
    THEN LET x == PyFloat(FloatParts(value.s))
         IN  IF x.neg THEN IntV(0 - (x.n \div x.den)) ELSE IntV(x.n \div x.den)
    ELSE IntV(0 - 1)

SortFields == {"date", "mood", "sleep", "exercise"}

_sort_key(e, field) ==
    CASE field = "mood" -> _safe_float(Get(e, "mood_scale", StrV("")))
      [] field = "sleep" -> _safe_int(Get(e, "sleep_minutes", StrV("")))
      [] field = "exercise" -> _safe_int(Get(e, "exercise_minutes", StrV("")))
      [] OTHER -> Get(e, "date", StrV(""))

\* entries[i] stands before entries[j] after entries.sort(key=..., reverse=...):
\* list.sort is stable in both directions
ListedBefore(entries, field, reverse, i, j) ==
    LET a == _sort_key(entries[i], field)
        b == _sort_key(entries[j], field)
    IN  \/ IF reverse THEN KeyLess(b, a) ELSE KeyLess(a, b)
        \/ ~KeyLess(a, b) /\ ~KeyLess(b, a) /\ i < j

\* load_entries: the entries read from the store, sorted in memory by the chosen
\* field and order ("raised" when the sort compares a key that is no text with a
\* text); the keys of one list are all texts or all numbers, none of them nan
load_entries(f, field, reverse) ==
    LET entries == read_entries(f)
    IN  IF field = "date" /\ SortRaises(entries)
        THEN [list |-> <<>>, action |-> "raised"]
        ELSE [list |->
                 [r \in 1..Len(entries) |->
                     entries[CHOOSE i \in 1..Len(entries) :
                         Cardinality({j \in 1..Len(entries) :
                             ListedBefore(entries, field, reverse, j, i)}) = r - 1]],
              action |-> "listed"]

(***************************************************************************)
(* The storage layer and the listing on a store found in any condition:    *)
(* missing, or any lines under the fixed header. The first call on it may  *)
(* be any operation, ensure may follow any number of times, and a run ends *)
(* with a read or a listing.                                               *)
(***************************************************************************)

MaxStoreRows == 2

\* the lines of EditedLines, a line whose date cell is empty, a line whose
\* date has no padding, and an empty line
StoreLines ==
    EditedLines \cup
    {CsvLine(EntryBlankDate),
     <<"2024-6-1", "60", "600", "0.0", "low", "none", "">>,
     <<>>}

\* a file whose header line was edited: two columns, in another order
EditedHeaderFile ==
    [folder |-> TRUE, exists |-> TRUE, header |-> <<"notes", "date">>,
     rows |-> <<<<"second", "2024-06-15">>, <<"first", "2023-02-28">>>>]

\* a file of three lines out of date order, two of them of one date
ShuffledFile ==
    [folder |-> TRUE, exists |-> TRUE, header |-> _FIELDNAMES,
     rows |-> <<CsvLine(EntryB), CsvLine(EntryEarlier), CsvLine(EntryA)>>]

StoreFiles ==
    {NoFile, EditedHeaderFile, ShuffledFile} \cup
    {[folder |-> TRUE, exists |-> TRUE, header |-> _FIELDNAMES, rows |-> r] :
        r \in UNION {[1..n -> StoreLines] : n \in 0..MaxStoreRows}}

\* the row lists handed to write_entries: none, two rows out of order, rows of
\* one date with fields missing, rows without a date
WrittenRows ==
    {<<>>,
     <<EntryA, EntryEarlier>>,
     <<EntryB, EntryPartial, EntryA>>,
     <<EntryNoDate, EntryNoneDate, EntryMalformed>>}

InitStore ==
    /\ csv \in StoreFiles
    /\ pre = csv
    /\ op = "init"
    /\ arg = EmptyDict
    /\ ret = "none"
    /\ payload = NoPayload
    /\ entry = EmptyDict
    /\ errors = EmptyDict
    /\ listing = <<>>

\* write_entries(CSV_PATH, rows); listing keeps the rows that were handed over
WriteEntries(rows) ==
    /\ csv' = write_entries(csv, rows)
    /\ listing' = rows
    /\ pre' = csv
    /\ op' = "write"
    /\ arg' = EmptyDict
    /\ ret' = "none"
    /\ payload' = NoPayload
    /\ entry' = EmptyDict
    /\ errors' = EmptyDict

\* the listing page loaded the entries as l, sorted by field
Loaded(field, reverse, l) ==
    /\ csv' = ensure_csv_exists(csv)
    /\ listing' = l.list
    /\ ret' = l.action
    /\ pre' = csv
    /\ op' = "list"
    /\ arg' = [field |-> StrV(field), reverse |-> StrV(IF reverse THEN "desc" ELSE "asc")]
    /\ payload' = NoPayload
    /\ entry' = EmptyDict
    /\ errors' = EmptyDict

LoadEntries(field, reverse) == Loaded(field, reverse, load_entries(csv, field, reverse))

\* the run has not ended with a read or a listing
StoreOpen == op \notin {"read", "list"}

NextStore ==
    \/ StoreOpen /\ EnsureCsvExists
    \/ StoreOpen /\ ReadEntries
    \/ StoreOpen /\ \E field \in SortFields, reverse \in BOOLEAN :
                        LoadEntries(field, reverse)
    \/ op = "init" /\ SortCsvByDate
    \/ op = "init" /\ \E rows \in WrittenRows : WriteEntries(rows)
    \/ op = "init" /\ \E e \in UpsertEntries : UpsertEntry(e)

SpecStore == InitStore /\ [][NextStore]_vars

(***************************************************************************)
(* One submission of the form on a missing store, for a wide range of      *)
(* texts: every combination of a good and a bad text per field, and every  *)
(* text of the longer lists below in one field group at a time             *)
(***************************************************************************)

DayTexts == {"15", " 29 ", "+31", "0", "-1", "100", "x", "1.5", ""}

MonthTexts == {"June", " FEB ", "02", "sept", "pizza", "13", ""}

YearTexts ==
    {"2024", "+2023", " 1900 ", "2000", "0", "10000", "123456789", "-1", "abc", ""}

HourTexts == {"7", "24", " 0", "-1", "25", "30000000", "x", ""}

MinuteTexts == {"30", "0", "1", "100", "-60", "1.0", ""}

MoodTexts ==
    {"8.0", " 7.25 ", "10", "10.0", "9.96", "9.95", "0.05", "0", "-0.0", "1e1", ".5",
     "10.04", "10.001", "11", "-0.01", "-1", "nan", "NaN", "-nan", "inf", "-inf",
     "Infinity", "1e9", "abc", "7,5", ".", "1e", ""}

CorePayloads ==
    {FormTexts(d, m, y, sh, "30", "0", em, mood, tags, act, notes) :
        d \in {"15", "x"}, m \in {"June", "pizza"}, y \in {"2024", ""},
        sh \in {"7", "x"}, em \in {"45", "1441"}, mood \in {"8.0", "11"},
        tags \in {"happy", " "}, act \in {" jogging, reading ", ""},
        notes \in {"", " n "}}

DatePayloads ==
    {FormTexts(d, m, y, "7", "30", "0", "45", "8.0", "happy", "jogging, reading", "") :
        d \in DayTexts, m \in MonthTexts, y \in YearTexts}

SleepPayloads ==
    {FormTexts("15", "June", "2024", h, m, "0", "45", "8.0", "happy",
               "jogging, reading", "") :
        h \in HourTexts, m \in MinuteTexts}

ExercisePayloads ==
    {FormTexts("15", "June", "2024", "7", "30", h, m, "8.0", "happy",
               "jogging, reading", "") :
        h \in HourTexts, m \in MinuteTexts}

MoodPayloads ==
    {FormTexts("15", "June", "2024", "7", "30", "0", "45", mood, "happy",
               "jogging, reading", "") :
        mood \in MoodTexts}

FormInputs ==
    CorePayloads \cup DatePayloads \cup SleepPayloads \cup ExercisePayloads
    \cup MoodPayloads

InitForm ==
    /\ payload \in FormInputs
    /\ csv = NoFile
    /\ pre = NoFile
    /\ op = "init"
    /\ arg = EmptyDict
    /\ ret = "none"
    /\ entry = EmptyDict
    /\ errors = EmptyDict
    /\ listing = <<>>

\* the user presses Submit on the texts typed into the form
SubmitTyped == op = "init" /\ Submitted(payload, submit_entry(csv, payload))

NextForm == SubmitTyped

SpecForm == InitForm /\ [][NextForm]_vars

(***************************************************************************)
(* The conversions of data_formatting.py and display_format.py, each       *)
(* called on one argument list: a month text, an hours and a minutes text, *)
(* a number of minutes, an HH:MM text. A total that hm_to_minutes returns  *)
(* is then formatted, and a text that minutes_to_hhmm returns is parsed.   *)
(***************************************************************************)

UpperTable == [c \in CharsOf(LowerCase) |-> Char(UpperCase, IndexOf(c, LowerCase))]

RECURSIVE UpperFrom(_, _)
UpperFrom(s, i) ==
    IF i > Len(s) THEN ""
    ELSE (IF Char(s, i) \in DOMAIN UpperTable THEN UpperTable[Char(s, i)] ELSE Char(s, i))
            \o UpperFrom(s, i + 1)

\* str.upper() and str.capitalize() of a lower-case text
upper(s) == UpperFrom(s, 1)

capitalize(s) == IF s = "" THEN "" ELSE upper(Char(s, 1)) \o SubSeq(s, 2, Len(s))

MonthNames ==
    <<"january", "february", "march", "april", "may", "june", "july", "august",
      "september", "october", "november", "december">>

\* the spellings of month i: the full name, its first three letters, "sept",
\* the number and the number with a leading zero
MonthSpellings(i) ==
    {MonthNames[i], SubSeq(MonthNames[i], 1, 3), IntToText(i)}
        \cup (IF i < 10 THEN {"0" \o IntToText(i)} ELSE {})
        \cup (IF i = 9 THEN {"sept"} ELSE {})

\* every spelling in lower case, capitalized, in upper case and with spaces
\* around it, and texts that spell no month
MonthInputs ==
    UNION {{s, capitalize(s), upper(s), "  " \o capitalize(s) \o " ", " " \o s} :
              s \in UNION {MonthSpellings(i) : i \in 1..12}}
        \cup {"pizza", "13", "0", "00", "", " ", "janu", "junee", "ju ne", "1.0", "+1",
              "-1", "001", "012", "1 2", "14", "99", "sep.", "septe", "j"}

\* the hours 0..25 and the minutes 0..60 as str() writes them, and texts with
\* padding, spaces, a sign, no digits, nothing
HourInputs ==
    {IntToText(h) : h \in 0..25} \cup {"", " ", "02", " 2 ", "+3", "-1", "x", "2.5", "100"}

MinuteInputs ==
    {IntToText(m) : m \in 0..60} \cup {"", " ", "05", " 7", "+9", "-5", "x", "1.5", "90"}

TotalInputs == (0..(MaxMinutes + 1)) \cup {0 - 1, 0 - 30, 0 - 60, 1500, 5999, 6000}

HhmmInputs == {"02:05", "2:5", " 1 : 30 ", "24:00", "-1:30", "5", "1:2:3", "a:b", ":", ""}

ConvertInputs ==
    {[month_text |-> s] : s \in MonthInputs}
        \cup {[hours_text |-> h, minutes_text |-> m, require_any |-> r] :
                 h \in HourInputs, m \in MinuteInputs, r \in BOOLEAN}
        \cup {[total_minutes |-> t] : t \in TotalInputs}
        \cup {[hhmm |-> s] : s \in HhmmInputs}
        \cup {[total_minutes |-> t, abbreviated |-> b] : t \in TotalInputs, b \in BOOLEAN}

InitConvert ==
    /\ arg \in ConvertInputs
    /\ op = "init"
    /\ ret = NoneV
    /\ csv = NoFile
    /\ pre = NoFile
    /\ payload = NoPayload
    /\ entry = EmptyDict
    /\ errors = EmptyDict
    /\ listing = <<>>

Converted(name, result) ==
    /\ op' = name
    /\ ret' = result
    /\ UNCHANGED <<csv, pre, arg, payload, entry, errors, listing>>

MonthToNumber ==
    /\ op = "init" /\ "month_text" \in DOMAIN arg
    /\ Converted("month_to_number", month_to_number(arg.month_text))

HmToMinutes ==
    /\ op = "init" /\ "hours_text" \in DOMAIN arg
    /\ Converted("hm_to_minutes",
                 hm_to_minutes(arg.hours_text, arg.minutes_text, arg.require_any))

\* minutes_to_hhmm(hm_to_minutes(hours_text, minutes_text, require_any))
MinutesToHhmm ==
    /\ op = "hm_to_minutes" /\ ret.t = "int"
    /\ Converted("minutes_to_hhmm", StrV(minutes_to_hhmm(ret.n)))

DisplayMinutesToHhmm ==
    /\ op = "init" /\ "total_minutes" \in DOMAIN arg
    /\ Converted("display_minutes_to_hhmm", StrV(display_minutes_to_hhmm(arg.total_minutes)))

\* hhmm_to_minutes of a given text, or of the text minutes_to_hhmm returned
HhmmToMinutes ==
    \/ /\ op = "init" /\ "hhmm" \in DOMAIN arg
       /\ Converted("hhmm_to_minutes", hhmm_to_minutes(arg.hhmm))
    \/ /\ op = "display_minutes_to_hhmm"
       /\ Converted("hhmm_to_minutes", hhmm_to_minutes(ret.s))

MinutesToHuman ==
    /\ op = "init" /\ "abbreviated" \in DOMAIN arg
    /\ Converted("minutes_to_human",
                 StrV(minutes_to_human(arg.total_minutes, arg.abbreviated)))

NextConvert ==
    \/ MinutesToHuman
    \/ MonthToNumber
    \/ HmToMinutes
    \/ MinutesToHhmm
    \/ DisplayMinutesToHhmm
    \/ HhmmToMinutes

SpecConvert == InitConvert /\ [][NextConvert]_vars

(***************************************************************************)
(* A store fed by the form alone: from a missing store, submissions of     *)
(* payloads that differ in the date they spell, up to MaxFedRows rows.     *)
(***************************************************************************)

MaxFedRows == 3

\* day, month and year texts of dates whose order is easy to get wrong (one,
\* three and four digit years, months 9 and 10, days 9 and 10) and of dates that
\* do not exist
FedDates ==
    {<<"1", "1", "1">>, <<"31", "12", "999">>, <<"1", "jan", "1000">>,
     <<"31", "Dec", "2023">>, <<"29", "February", "2024">>, <<"30", "sept", "2024">>,
     <<" 9 ", "10", "2024">>, <<"10", "OCT", "+2024">>, <<"10", "9", "2024">>,
     <<"2", "11", "02024">>, <<"31", "12", "9999">>,
     <<"1", "1", "10000">>, <<"1", "1", "0">>, <<"100", "1", "2024">>,
     <<"0", "1", "2024">>, <<"31", "9", "2024">>, <<"-1", "1", "2024">>}

FedPayloads ==
    {FormTexts(d[1], d[2], d[3], "7", "30", "0", "45", "8.0", "happy",
               "jogging, reading", "") : d \in FedDates}

InitFed ==
    /\ csv = NoFile
    /\ pre = NoFile
    /\ op = "init"
    /\ arg = EmptyDict
    /\ ret = "none"
    /\ payload = NoPayload
    /\ entry = EmptyDict
    /\ errors = EmptyDict
    /\ listing = <<>>

\* what create_daily_entry returns for each payload of FedPayloads
ValidatedFed == [p \in FedPayloads |-> create_daily_entry(p)]

SubmitFed(p) ==
    /\ Len(csv.rows) < MaxFedRows
    /\ Submitted(p, AfterValidation(csv, ValidatedFed[p]))

NextFed == \E p \in FedPayloads : SubmitFed(p)

SpecFed == InitFed /\ [][NextFed]_vars

(***************************************************************************)
(* write_entries statement by statement: open(file_path, "w") empties the  *)
(* file, writeheader and each writerow add a line, leaving the with block  *)
(* closes the file. An exception raised between two statements leaves the  *)
(* with block too, with the lines written so far in the file.              *)
(***************************************************************************)

\* a variant that opens the file for appending
OpenedForAppend(f) == ensure_csv_exists(f)

\* open(file_path, mode="w"): the file exists and is empty
OpenedForWrite(f) == [ensure_csv_exists(f) EXCEPT !.header = <<>>, !.rows = <<>>]

\* the stores write_entries is called on: missing, header only, one or two rows
WriteFiles ==
    {NoFile} \cup
    {[folder |-> TRUE, exists |-> TRUE, header |-> _FIELDNAMES, rows |-> r] :
        r \in {<<>>, <<CsvLine(EntryEarlier)>>, <<CsvLine(EntryA)>>,
               <<CsvLine(EntryEarlier), CsvLine(EntryA)>>,
               <<CsvLine(EntryA), CsvLine(EntryMalformed)>>}}

\* the entries whose upsert is followed statement by statement
WriteUpserts == {EntryA, EntryB, EntryEarlier, EntryMalformed}

InitWrite ==
    /\ csv \in WriteFiles
    /\ pre = csv
    /\ op = "init"
    /\ arg = EmptyDict
    /\ ret = "none"
    /\ payload = NoPayload
    /\ entry = EmptyDict
    /\ errors = EmptyDict
    /\ listing = <<>>

\* write_entries(file_path, rows) has opened the file: line 72
Opened(e, rows) ==
    /\ op = "init"
    /\ csv' = OpenedForWrite(csv)
    /\ pre' = csv
    /\ listing' = rows
    /\ arg' = e
    /\ op' = "write"
    /\ ret' = "opened"
    /\ UNCHANGED <<payload, entry, errors>>

\* upsert_entry up to the open of its write_entries call: lines 94-123 and 70-72
UpsertOpens(e) ==
    Opened(e, SortedByDate(UpdatedRows(read_entries(csv), e, PyStr(e["date"])).rows))

\* sort_csv_by_date up to the open of its write_entries call
SortOpens == Opened(EmptyDict, SortedByDate(read_entries(csv)))

\* writer.writeheader(): line 74
WriteHeader ==
    /\ op = "write" /\ ret = "opened"
    /\ csv' = [csv EXCEPT !.header = _FIELDNAMES]
    /\ ret' = "header"
    /\ UNCHANGED <<pre, op, arg, payload, entry, errors, listing>>

\* writer.writerow(safe_row) for the next row: lines 77-79
WriteRow ==
    /\ op = "write" /\ ret = "header"
    /\ Len(csv.rows) < Len(listing)
    /\ csv' = [csv EXCEPT !.rows = Append(csv.rows, CsvLine(listing[Len(csv.rows) + 1]))]
    /\ UNCHANGED <<pre, op, ret, arg, payload, entry, errors, listing>>

\* the loop is over and the with block is left
WriteCloses ==
    /\ op = "write" /\ ret = "header"
    /\ Len(csv.rows) = Len(listing)
    /\ op' = "written"
    /\ UNCHANGED <<csv, pre, ret, arg, payload, entry, errors, listing>>

\* an exception (KeyboardInterrupt, OSError) reaches the with block before the
\* last row is written; the file is closed with what was written
WriteInterrupted ==
    /\ op = "write"
    /\ ret = "opened" \/ Len(csv.rows) < Len(listing)
    /\ op' = "interrupted"
    /\ UNCHANGED <<csv, pre, ret, arg, payload, entry, errors, listing>>

NextWrite ==
    \/ \E e \in WriteUpserts : UpsertOpens(e)
    \/ SortOpens
    \/ WriteHeader
    \/ WriteRow
    \/ WriteCloses
    \/ WriteInterrupted

SpecWrite == InitWrite /\ [][NextWrite]_vars

(***************************************************************************)
(* Two callers of upsert_entry on one store. A call reads the store (lines *)
(* 94-97), then works on the rows it read and writes them back (lines      *)
(* 99-123); nothing keeps the other caller from running in between.        *)
(***************************************************************************)

Callers == {1, 2}

\* a variant that reads the store again when it writes
UpsertFromFresh(f, rows, e) == upsert_entry(f, e)

\* lines 99-125 of upsert_entry on the rows the call has read: the file it writes
\* and what it returns
UpsertFrom(f, rows, e) ==
    LET u == UpdatedRows(rows, e, PyStr(e["date"]))
    IN  [file |-> write_entries(f, SortedByDate(u.rows)), action |-> u.action]

\* the stores the two callers start on: missing, header only, one row
RaceFiles ==
    {NoFile} \cup
    {[folder |-> TRUE, exists |-> TRUE, header |-> _FIELDNAMES, rows |-> r] :
        r \in {<<>>, <<CsvLine(EntryEarlier)>>, <<CsvLine(EntryMalformed)>>}}

\* the entries the callers upsert, two of them of one date
RaceEntries == {EntryA, EntryB, EntryEarlier, EntryMalformed}

\* arg, ret and listing hold, for each caller, the entry it upserts, how far
\* its call got ("idle", "read", then what it returned) and the rows it read;
\* entry is the entry of the last write
InitRace ==
    /\ csv \in RaceFiles
    /\ pre = csv
    /\ op = "init"
    /\ arg \in [Callers -> RaceEntries]
    /\ ret = [c \in Callers |-> "idle"]
    /\ listing = [c \in Callers |-> <<>>]
    /\ entry = EmptyDict
    /\ payload = NoPayload
    /\ errors = EmptyDict

\* lines 94-97: ensure_csv_exists(file_path); rows = read_entries(file_path)
UpsertReads(c) ==
    /\ ret[c] = "idle"
    /\ csv' = ensure_csv_exists(csv)
    /\ listing' = [listing EXCEPT ![c] = read_entries(csv)]
    /\ ret' = [ret EXCEPT ![c] = "read"]
    /\ op' = "read"
    /\ UNCHANGED <<pre, arg, entry, payload, errors>>

\* caller c wrote back and returned u.action
UpsertWrote(c, u) ==
    /\ csv' = u.file
    /\ ret' = [ret EXCEPT ![c] = u.action]
    /\ entry' = arg[c]
    /\ op' = "write"
    /\ UNCHANGED <<pre, arg, listing, payload, errors>>

\* lines 99-125
UpsertWrites(c) ==
    /\ ret[c] = "read"
    /\ UpsertWrote(c, UpsertFrom(csv, listing[c], arg[c]))

NextRace == \E c \in Callers : UpsertReads(c) \/ UpsertWrites(c)

SpecRace == InitRace /\ [][NextRace]_vars

(***************************************************************************)
(* One day typed in many ways: from a missing store, submissions of        *)
(* payloads that spell 9 September 2024 differently, and the day after.    *)
(***************************************************************************)

SameDayDays == {"9", "09", " 9 ", "+9", "009"}

SameDayMonths == {"September", "september", "SEPT", " sep ", "9", "09", " 09"}

SameDayYears == {"2024", "+2024", " 2024 ", "02024"}

SameDayPayloads ==
    {FormTexts(d, m, y, "7", "30", "0", "45", "8.0", "happy", "jogging, reading", "") :
        d \in SameDayDays, m \in SameDayMonths, y \in SameDayYears}
    \cup {FormTexts(" 9 ", "SEPT", "02024", "7", "30", "0", "45", "3", "happy",
                    "jogging, reading", ""),
          FormTexts("10", "Sep", "2024", "7", "30", "0", "45", "8.0", "happy",
                    "jogging, reading", ""),
          FormTexts("9", "Septembre", "2024", "7", "30", "0", "45", "8.0", "happy",
                    "jogging, reading", "")}

\* what create_daily_entry returns for each payload of SameDayPayloads
ValidatedSameDay == [p \in SameDayPayloads |-> create_daily_entry(p)]

SubmitSameDay(p) == Submitted(p, AfterValidation(csv, ValidatedSameDay[p]))

NextSameDay == \E p \in SameDayPayloads : SubmitSameDay(p)

SpecSameDay == InitFed /\ [][NextSameDay]_vars

(***************************************************************************)
(* Properties of the store (upsert_entry)                                  *)
(***************************************************************************)

\* the date column of the rows a read of file f returns
DatesIn(f) == [i \in 1..Len(read_entries(f)) |-> DateKey(read_entries(f)[i]).s]

\* the positions of the rows of f whose date is d
RowsDated(f, d) == {i \in 1..Len(DatesIn(f)) : DatesIn(f)[i] = d}

\* the last step was a call of upsert_entry that returned (directly, or from
\* a submission that passed validation)
UpsertReturned ==
    /\ op \in {"upsert", "submit"}
    /\ ret \in {"inserted", "updated"}

\* the cells upsert_entry has to leave on disk for the entry it was given:
\* the text of each field the entry has, an empty cell for each it lacks
ExpectedLine ==
    [j \in 1..Len(_FIELDNAMES) |->
        IF _FIELDNAMES[j] \in DOMAIN arg THEN CsvText(arg[_FIELDNAMES[j]]) ELSE ""]

\* C1: starting from an empty store and changing it only through
\* upsert_entry, no two rows of the store ever have the same date.
C1_OneRowPerDate ==
    \A i, j \in 1..Len(csv.rows) : i # j => DatesIn(csv)[i] # DatesIn(csv)[j]

\* an upsert has replaced a row of a store that holds three or more dates
C1_Witness ==
    /\ op = "upsert"
    /\ ret = "updated"
    /\ Len(csv.rows) >= 3
    /\ RowsDated(pre, "2024-06-15") # {}

\* C2: an upsert of an entry whose date is already in the store leaves
\* exactly one row with that date, and each of its seven cells is the new
\* entry's value, or empty where the new entry has no such field: nothing of
\* the replaced row survives.
C2_FullReplacement ==
    (UpsertReturned /\ ret = "updated") =>
        /\ Cardinality(RowsDated(csv, PyStr(arg["date"]))) = 1
        /\ \A i \in RowsDated(csv, PyStr(arg["date"])) : csv.rows[i] = ExpectedLine

\* a row with every field filled in was replaced by an entry of two fields
C2_Witness ==
    /\ op = "upsert"
    /\ ret = "updated"
    /\ arg = EntryPartial
    /\ \E i \in 1..Len(pre.rows) : pre.rows[i] = CsvLine(EntryB)
    /\ \E i \in 1..Len(csv.rows) :
            csv.rows[i] = <<"2024-06-15", "30", "", "", "", "", "">>

\* C3: after every upsert_entry call that returns, whatever the order of the
\* rows before it (a hand-edited store included), the rows on disk are in
\* non-decreasing order of their date text.
C3_SortedAfterUpsert ==
    UpsertReturned =>
        \A i \in 1..(Len(csv.rows) - 1) :
            ~StrLess(DatesIn(csv)[i + 1], DatesIn(csv)[i])

\* an upsert returned on a store whose rows were out of order before the call
C3_Witness ==
    /\ op = "upsert"
    /\ ret = "inserted"
    /\ Len(pre.rows) >= 2
    /\ \E i \in 1..(Len(pre.rows) - 1) :
            StrLess(DatesIn(pre)[i + 1], DatesIn(pre)[i])

\* C4: upsert_entry returns "updated" exactly when the store held, just
\* before the call, a row with the entry's date; otherwise it returns
\* "inserted" and the store has one row more, the entry's; a call that
\* returns gives one of these two values, and a call with a text date returns.
C4_UpdatedIffPresent ==
    op = "upsert" =>
        /\ ret \in {"inserted", "updated", "raised"}
        /\ ("date" \in DOMAIN arg /\ arg["date"].t = "str") => ret # "raised"
        /\ ret # "raised" =>
            /\ ret = "updated" <=> RowsDated(pre, PyStr(arg["date"])) # {}
            /\ ret = "inserted" =>
                /\ Len(csv.rows) = Len(read_entries(pre)) + 1
                /\ \E i \in 1..Len(csv.rows) : csv.rows[i] = ExpectedLine

\* an entry of a new date was inserted into a store that already had rows
C4_Witness ==
    /\ op = "upsert"
    /\ ret = "inserted"
    /\ Len(pre.rows) >= 2
    /\ RowsDated(pre, PyStr(arg["date"])) = {}
    /\ Len(csv.rows) = Len(pre.rows) + 1

\* C5: a submission whose error map is not empty does not reach the store:
\* the file is what it was before Submit, and nothing is reported as saved;
\* the store changes only in a submission whose error map is empty.
C5_ErrorsLeaveStoreAlone ==
    op = "submit" =>
        /\ DOMAIN errors # {} => (csv = pre /\ ret = "errors")
        /\ csv # pre => DOMAIN errors = {}

\* a form with errors was submitted over a store that has rows
C5_Witness ==
    /\ op = "submit"
    /\ Cardinality(DOMAIN errors) >= 2
    /\ Len(pre.rows) >= 1
    /\ csv = pre

(***************************************************************************)
(* Properties of validation (create_daily_entry), on the texts of the      *)
(* submitted form                                                          *)
(***************************************************************************)

\* what makes each field of the form invalid, read off the submitted texts
\* alone: a day or year that is no whole number, a month that is no month
\* name, abbreviation or number, a time that is blank, not whole numbers or
\* with a total outside 0..1440, a mood that is no number between 0 and 10,
\* blank tags or activities
IsBlank(text) == strip(text) = ""

DayInvalid == ~IsIntLiteral(payload.date_day_text)

MonthInvalid == normalize_text(payload.date_month_text) \notin DOMAIN _MONTHS

YearInvalid == ~IsIntLiteral(payload.date_year_text)

ComponentOf(text) == IF IsBlank(text) THEN 0 ELSE IntValue(text)

TimeParses(h, m) ==
    /\ ~(IsBlank(h) /\ IsBlank(m))
    /\ IsBlank(h) \/ IsIntLiteral(h)
    /\ IsBlank(m) \/ IsIntLiteral(m)

TotalOf(h, m) == (ComponentOf(h) * 60) + ComponentOf(m)

TimeInvalid(h, m) == ~TimeParses(h, m) \/ TotalOf(h, m) < 0 \/ TotalOf(h, m) > 1440

SleepInvalid == TimeInvalid(payload.sleep_hours_text, payload.sleep_minutes_text)

ExerciseInvalid ==
    TimeInvalid(payload.exercise_hours_text, payload.exercise_minutes_text)

\* x is a number with 0.0 <= x <= 10.0 (either zero counts as 0.0)
InMoodRange(x) ==
    /\ x.t = "float"
    /\ x.n <= 10 * x.den
    /\ x.neg => x.n = 0

MoodParses == FloatAccepts(FloatParts(payload.mood_scale_text))

MoodParsed == FloatOf(FloatParts(payload.mood_scale_text))

MoodInvalid == ~MoodParses \/ ~InMoodRange(MoodParsed)

StableKeys ==
    {"date_day", "date_month", "date_year", "date", "sleep_time", "exercise_time",
     "mood_scale", "mood_tags", "activities"}

\* C6: whatever the other fields are, the error map has a field's key exactly
\* when that field is invalid (day, month, year, sleep time, exercise time,
\* mood scale, mood tags, activities), and it has no key outside the nine
\* stable identifiers.
C6_KeyIffInvalid ==
    op = "submit" =>
        /\ "date_day" \in DOMAIN errors <=> DayInvalid
        /\ "date_month" \in DOMAIN errors <=> MonthInvalid
        /\ "date_year" \in DOMAIN errors <=> YearInvalid
        /\ "sleep_time" \in DOMAIN errors <=> SleepInvalid
        /\ "exercise_time" \in DOMAIN errors <=> ExerciseInvalid
        /\ "mood_scale" \in DOMAIN errors <=> MoodInvalid
        /\ "mood_tags" \in DOMAIN errors <=> IsBlank(payload.mood_tags_text)
        /\ "activities" \in DOMAIN errors <=> IsBlank(payload.activities_text)
        /\ DOMAIN errors \subseteq StableKeys

\* the Gregorian calendar, for the numbers the three date texts stand for
CalendarDays(y, m) ==
    CASE m \in {1, 3, 5, 7, 8, 10, 12} -> 31
      [] m \in {4, 6, 9, 11} -> 30
      [] m = 2 /\ y % 400 = 0 -> 29
      [] m = 2 /\ y % 400 # 0 /\ y % 100 = 0 -> 28
      [] m = 2 /\ y % 100 # 0 /\ y % 4 = 0 -> 29
      [] m = 2 /\ y % 4 # 0 -> 28

TypedYear == IntValue(payload.date_year_text)

TypedMonth == _MONTHS[normalize_text(payload.date_month_text)]

TypedDay == IntValue(payload.date_day_text)

\* the typed day, month and year are a date of the calendar, years 1 to 9999
RealDate ==
    /\ TypedYear >= 1
    /\ TypedYear <= 9999
    /\ TypedDay >= 1
    /\ TypedDay <= CalendarDays(TypedYear, TypedMonth)

\* C7: the error map has the key "date" exactly when day, month and year all
\* parsed and the date they give is no date of the calendar; "date" never
\* comes with date_day, date_month or date_year.
C7_DateKeyIffUnreal ==
    op = "submit" =>
        /\ "date" \in DOMAIN errors <=>
              (~DayInvalid /\ ~MonthInvalid /\ ~YearInvalid /\ ~RealDate)
        /\ "date" \in DOMAIN errors =>
              DOMAIN errors \cap {"date_day", "date_month", "date_year"} = {}

\* 29 February of a year that is no leap year was submitted and got the key
C7_Witness ==
    /\ op = "submit"
    /\ "date" \in DOMAIN errors
    /\ ~DayInvalid /\ ~MonthInvalid /\ ~YearInvalid
    /\ TypedDay = 29
    /\ TypedMonth = 2
    /\ TypedYear = 1900

EntryFields == {_FIELDNAMES[j] : j \in 1..Len(_FIELDNAMES)}

\* C8: create_daily_entry returns either an empty record with a non-empty
\* error map, or a record with all seven fields set with an empty error
\* map; never a record of some fields, never a record next to errors.
C8_TwoShapes ==
    op = "submit" =>
        \/ entry = EmptyDict /\ DOMAIN errors # {}
        \/ /\ DOMAIN errors = {}
           /\ DOMAIN entry = EntryFields
           /\ \A k \in EntryFields : entry[k] # NoneV
           /\ \A k \in {"date", "mood_tags", "activities", "notes"} : entry[k].t = "str"

\* a form with three or more invalid fields came back with no record at all
C8_Witness ==
    /\ op = "submit"
    /\ Cardinality(DOMAIN errors) >= 3
    /\ entry = EmptyDict
    /\ ~DayInvalid

\* a cell holds a whole number of 0..1440 written in digits
MinutesCell(cell) == AllDigits(cell) /\ DigitsValue(cell) <= 1440

\* C9: a returned record, and the row the form then stores, has whole-number
\* sleep_minutes and exercise_minutes in 0..1440; a total below 0 or above
\* 1440 gets the sleep_time / exercise_time error; totals 0 and 1440 pass.
C9_MinutesInRange ==
    op = "submit" =>
        /\ DOMAIN errors = {} =>
            /\ entry.sleep_minutes.t = "int"
            /\ entry.sleep_minutes.n \in 0..1440
            /\ entry.exercise_minutes.t = "int"
            /\ entry.exercise_minutes.n \in 0..1440
            /\ \A i \in 1..Len(csv.rows) :
                    MinutesCell(csv.rows[i][2]) /\ MinutesCell(csv.rows[i][3])
        /\ \A key \in {"sleep_time", "exercise_time"} :
             LET h == IF key = "sleep_time" THEN payload.sleep_hours_text
                      ELSE payload.exercise_hours_text
                 m == IF key = "sleep_time" THEN payload.sleep_minutes_text
                      ELSE payload.exercise_minutes_text
             IN TimeParses(h, m) =>
                 /\ (TotalOf(h, m) < 0 \/ TotalOf(h, m) > 1440) => key \in DOMAIN errors
                 /\ TotalOf(h, m) \in {0, 1440} => key \notin DOMAIN errors

\* a sleep of exactly 24 hours was accepted and stored as 1440
C9_Witness ==
    /\ op = "submit"
    /\ DOMAIN errors = {}
    /\ entry.sleep_minutes = IntV(1440)
    /\ Len(csv.rows) = 1
    /\ csv.rows[1][2] = "1440"

\* C10: a returned record has a mood_scale that is a number v with
\* 0.0 <= v <= 10.0 and one fractional digit, for every mood text the
\* decimal parser accepts; a parsed value outside 0.0..10.0 gets the
\* mood_scale error.
C10_MoodInRange ==
    op = "submit" =>
        /\ DOMAIN errors = {} =>
            /\ InMoodRange(entry.mood_scale)
            /\ entry.mood_scale.den = 10
        /\ (MoodParses /\ ~InMoodRange(MoodParsed)) => "mood_scale" \in DOMAIN errors

\* text t is text raw without the spaces around it
IsTrimOf(raw, t) ==
    /\ t = "" \/ (Char(t, 1) # " " /\ Char(t, Len(t)) # " ")
    /\ \E a \in 0..Len(raw) :
        /\ a + Len(t) <= Len(raw)
        /\ SubSeq(raw, a + 1, a + Len(t)) = t
        /\ \A i \in (1..a) \cup ((a + Len(t) + 1)..Len(raw)) : Char(raw, i) = " "

\* text d reads YYYY-MM-DD, ten characters, for the numbers y, m and d
IsIsoTextOf(text, y, m, d) ==
    /\ Len(text) = 10
    /\ Char(text, 5) = "-" /\ Char(text, 8) = "-"
    /\ AllDigits(SubSeq(text, 1, 4)) /\ DigitsValue(SubSeq(text, 1, 4)) = y
    /\ AllDigits(SubSeq(text, 6, 7)) /\ DigitsValue(SubSeq(text, 6, 7)) = m
    /\ AllDigits(SubSeq(text, 9, 10)) /\ DigitsValue(SubSeq(text, 9, 10)) = d

\* C11: on success the record is the normalized input: date is the
\* zero-padded YYYY-MM-DD of the typed year, month and day; sleep_minutes
\* and exercise_minutes are hours*60+minutes with a blank part counted as 0;
\* mood_tags, activities and notes are the typed texts without surrounding
\* whitespace, the first two non-blank; notes never cause a rejection.
C11_RecordIsNormalizedInput ==
    op = "submit" =>
        /\ DOMAIN errors = {} =>
            /\ IsIsoTextOf(entry.date.s, TypedYear, TypedMonth, TypedDay)
            /\ entry.sleep_minutes =
                  IntV(TotalOf(payload.sleep_hours_text, payload.sleep_minutes_text))
            /\ entry.exercise_minutes =
                  IntV(TotalOf(payload.exercise_hours_text, payload.exercise_minutes_text))
            /\ IsTrimOf(payload.mood_tags_text, entry.mood_tags.s)
            /\ IsTrimOf(payload.activities_text, entry.activities.s)
            /\ IsTrimOf(payload.notes_text, entry.notes.s)
            /\ entry.mood_tags.s # "" /\ entry.activities.s # ""
        /\ "notes" \notin DOMAIN errors

\* a form with spaces around its activities and notes was accepted
C11_Witness ==
    /\ op = "submit"
    /\ DOMAIN errors = {}
    /\ payload.activities_text = " jogging, reading "
    /\ entry.activities = StrV("jogging, reading")
    /\ payload.notes_text = " n "
    /\ entry.notes = StrV("n")
    /\ entry.date = StrV("2024-06-15")

\* C12: parse_int, parse_float, month_to_number, hm_to_minutes and
\* create_daily_entry never raise on text arguments: a blank, non-numeric,
\* unknown, out-of-range, impossible, very large or signed text comes back
\* as an error value or none, and create_daily_entry always returns an
\* (entry, errors) pair.
C12_NeverRaises ==
    op = "submit" =>
        /\ ret # "ValueError"
        /\ ret \in {"errors", "inserted", "updated"}
        /\ ret = "errors" <=> DOMAIN errors # {}
        /\ ret = "errors" \/ DOMAIN entry = EntryFields

\* a form with a day that is no number, an unknown month and a very large
\* year came back with the error keys of the first two and no record
C12_Witness ==
    /\ op = "submit"
    /\ ret = "errors"
    /\ payload.date_day_text = "x"
    /\ payload.date_month_text = "pizza"
    /\ payload.date_year_text = "123456789"
    /\ DOMAIN errors = {"date_day", "date_month"}
    /\ entry = EmptyDict

(***************************************************************************)
(* Properties of the storage layer on a store found in any condition       *)
(***************************************************************************)

\* the file that holds the header row and nothing else
HeaderOnly == [folder |-> TRUE, exists |-> TRUE, header |-> _FIELDNAMES, rows |-> <<>>]

\* C13: ensure_csv_exists on a missing store makes the folder and a file with
\* only the fixed header; on an existing file, whatever it holds, it changes
\* nothing; a second call leaves what the first call left.
C13_EnsureIdempotent ==
    [][op' = "ensure" =>
          /\ ~csv.exists => csv' = HeaderOnly
          /\ csv.exists => csv' = csv
          /\ op = "ensure" => csv' = csv]_vars

\* ensure_csv_exists was called a second time, on the header-only file its
\* first call made of a missing store
C13_Witness ==
    /\ op = "ensure"
    /\ pre = HeaderOnly
    /\ csv = HeaderOnly

\* the seven cells a row handed to write_entries has to become
WrittenLine(row) ==
    [j \in 1..Len(_FIELDNAMES) |->
        IF _FIELDNAMES[j] \in DOMAIN row /\ row[_FIELDNAMES[j]] # NoneV
        THEN PyStr(row[_FIELDNAMES[j]]) ELSE ""]

\* C14: write_entries replaces the store with exactly the rows it was given,
\* in the order given, unsorted and with duplicates kept, under the fixed
\* header; a field a row lacks is written empty; after any write (by
\* write_entries, sort_csv_by_date or upsert_entry) the header is the fixed
\* one and every line has its seven cells.
C14_WriteIsExact ==
    /\ op = "write" =>
        /\ csv.exists
        /\ csv.header = _FIELDNAMES
        /\ Len(csv.rows) = Len(listing)
        /\ \A i \in 1..Len(listing) : csv.rows[i] = WrittenLine(listing[i])
    /\ (op \in {"write", "sort"} \/ UpsertReturned) =>
        /\ csv.header = _FIELDNAMES
        /\ \A i \in 1..Len(csv.rows) : Len(csv.rows[i]) = Len(_FIELDNAMES)

\* three rows of one date, one of them with two fields only, were written
\* over a store that held other lines
C14_Witness ==
    /\ op = "write"
    /\ Len(pre.rows) = 2
    /\ listing = <<EntryB, EntryPartial, EntryA>>
    /\ Len(csv.rows) = 3
    /\ csv.rows[2] = <<"2024-06-15", "30", "", "", "", "", "">>

\* the lines of file f that are not empty, in the order of the file
LinesOnDisk(f) == SelectSeq(f.rows, LAMBDA line : line # <<>>)

\* row is the mapping from the header of f to the cells of line
IsMappingOf(row, f, line) ==
    /\ DOMAIN row = {f.header[j] : j \in 1..Len(f.header)}
    /\ \A j \in 1..Len(f.header) : row[f.header[j]] = StrV(line[j])

\* list b holds the rows of list a, each as often as a does
SameRows(a, b) ==
    /\ Len(a) = Len(b)
    /\ \A x \in {a[i] : i \in 1..Len(a)} \cup {b[i] : i \in 1..Len(b)} :
          Cardinality({i \in 1..Len(a) : a[i] = x})
              = Cardinality({i \in 1..Len(b) : b[i] = x})

\* C15: read_entries returns the stored rows in the order of the file, as
\* mappings from field name to text, and leaves an existing store as it is;
\* on a missing store it creates the header-only store and returns no rows.
\* The listing sorts (by date, mood, sleep or exercise, up or down) its own
\* list of the rows and leaves the store as a read leaves it.
C15_ReadLeavesStore ==
    /\ op \in {"read", "list"} =>
        /\ pre.exists => csv = pre
        /\ ~pre.exists => (csv = HeaderOnly /\ listing = <<>>)
    /\ op = "read" =>
        /\ Len(listing) = Len(LinesOnDisk(csv))
        /\ \A i \in 1..Len(listing) :
              IsMappingOf(listing[i], csv, LinesOnDisk(csv)[i])
    /\ op = "list" =>
        /\ ret = "listed"
        /\ SameRows(listing, read_entries(csv))

\* a store of two lines out of date order was read
C15_Witness ==
    /\ op = "read"
    /\ csv = pre
    /\ Len(listing) = 2
    /\ StrLess(listing[2]["date"].s, listing[1]["date"].s)

\* the rows of file f, each as the seven cells it is written with
RowsOf(f) == [i \in 1..Len(read_entries(f)) |-> CsvLine(read_entries(f)[i])]

\* the rows of f whose date is d, in the order of the file
RowsOfDate(f, d) == SelectSeq(RowsOf(f), LAMBDA line : line[1] = d)

DatesOf(f) == {RowsOf(f)[i][1] : i \in 1..Len(RowsOf(f))}

InDateOrder(f) ==
    \A i \in 1..(Len(RowsOf(f)) - 1) : ~StrLess(RowsOf(f)[i + 1][1], RowsOf(f)[i][1])

\* C16: sort_csv_by_date changes only the order of the rows: the store holds
\* the same rows as often as before, in non-decreasing order of the date
\* text, the rows of one date in the order they had; on a store already in
\* order it changes no row.
C16_ResortOnlyReorders ==
    op = "sort" =>
        /\ Len(RowsOf(csv)) = Len(RowsOf(pre))
        /\ \A d \in DatesOf(pre) \cup DatesOf(csv) : RowsOfDate(csv, d) = RowsOfDate(pre, d)
        /\ InDateOrder(csv)
        /\ InDateOrder(pre) => RowsOf(csv) = RowsOf(pre)

\* a store with two different rows of one date, out of order with a third
\* row, was sorted
C16_Witness ==
    /\ op = "sort"
    /\ pre = ShuffledFile
    /\ ~InDateOrder(pre)
    /\ RowsOf(csv) = <<CsvLine(EntryEarlier), CsvLine(EntryB), CsvLine(EntryA)>>
    /\ Len(RowsOfDate(pre, "2024-06-15")) = 2
    /\ RowsOfDate(pre, "2024-06-15")[1] # RowsOfDate(pre, "2024-06-15")[2]

\* the date texts of the rows of f that are no YYYY-MM-DD
MalformedDates(f) == {d \in DatesOf(f) : Len(d) # 10}

\* C17: a row whose date text is malformed (empty, no date, not
\* YYYY-MM-DD) does not make upsert_entry fail, and upsert_entry neither
\* drops nor alters it: it is still there with the same values, placed by
\* the plain comparison of its date text.
C17_MalformedRowsKept ==
    (op = "upsert" /\ "date" \in DOMAIN arg /\ arg["date"].t = "str") =>
        /\ ret \in {"inserted", "updated"}
        /\ \A d \in DatesOf(pre) \ {arg["date"].s} : RowsOfDate(csv, d) = RowsOfDate(pre, d)
        /\ InDateOrder(csv)

\* an entry was upserted into a store that held a row with an empty date and
\* a row dated "June 1"
C17_Witness ==
    /\ op = "upsert"
    /\ arg = EntryA
    /\ MalformedDates(pre) = {"", "June 1"}
    /\ Len(RowsOf(csv)) = 3
    /\ RowsOf(csv)[1][1] = ""
    /\ RowsOf(csv)[3][1] = "June 1"

(***************************************************************************)
(* Properties of the conversions (data_formatting.py, display_format.py)   *)
(***************************************************************************)

\* texts a and b are equal but for the case of their letters
SameIgnoringCase(a, b) ==
    /\ Len(a) = Len(b)
    /\ \A i \in 1..Len(a) :
          \/ Char(a, i) = Char(b, i)
          \/ \E k \in 1..Len(LowerCase) :
                {Char(a, i), Char(b, i)} = {Char(LowerCase, k), Char(UpperCase, k)}

\* text, without the spaces around it and whatever its case, is a spelling of
\* month i
Spells(text, i) ==
    \E s \in MonthSpellings(i) : \E a \in 1..(Len(text) + 1) :
        /\ a + Len(s) - 1 <= Len(text)
        /\ IsTrimOf(text, SubSeq(text, a, a + Len(s) - 1))
        /\ SameIgnoringCase(SubSeq(text, a, a + Len(s) - 1), s)

\* C18: month_to_number returns the number 1..12 of the month for its full
\* name, its three-letter abbreviation, "sept", and the numbers "1".."12"
\* and "01".."09", whatever the case and the spaces around; for every other
\* text ("pizza", "13", "0", "00", blank) it returns none; it returns no
\* number outside 1..12.
C18_MonthNumber ==
    op = "month_to_number" =>
        /\ \A i \in 1..12 : Spells(arg.month_text, i) => ret = IntV(i)
        /\ (\A i \in 1..12 : ~Spells(arg.month_text, i)) => ret = NoneV
        /\ ret = NoneV \/ (ret.t = "int" /\ ret.n \in 1..12)

\* "  Sept " was converted, to 9
C18_Witness ==
    /\ op = "month_to_number"
    /\ arg.month_text = "  Sept "
    /\ ret = IntV(9)

\* C19: hm_to_minutes(hours, minutes, require_any) returns none when
\* require_any is set and both texts are blank; a blank text counts as 0;
\* it returns none when a text that is not blank is no integer; otherwise it
\* returns hours * 60 + minutes. With require_any not set two blank texts
\* give 0, and with one text filled the result is that text's share alone.
C19_HoursMinutesTotal ==
    op = "hm_to_minutes" =>
        LET h == arg.hours_text
            m == arg.minutes_text
            both_blank == IsBlank(h) /\ IsBlank(m)
            integers == (IsBlank(h) \/ IsIntLiteral(h)) /\ (IsBlank(m) \/ IsIntLiteral(m))
        IN  /\ (arg.require_any /\ both_blank) => ret = NoneV
            /\ (~arg.require_any /\ both_blank) => ret = IntV(0)
            /\ (~both_blank /\ ~integers) => ret = NoneV
            /\ (~both_blank /\ integers) => ret = IntV(TotalOf(h, m))
            /\ (IsBlank(h) /\ IsIntLiteral(m)) => ret = IntV(IntValue(m))
            /\ (IsBlank(m) /\ IsIntLiteral(h)) => ret = IntV(IntValue(h) * 60)

\* two blank texts were converted with require_any not set, to 0
C19_Witness ==
    /\ op = "hm_to_minutes"
    /\ arg.hours_text = " "
    /\ arg.minutes_text = ""
    /\ ~arg.require_any
    /\ ret = IntV(0)

\* the two decimal digits of n, 0 <= n <= 99
TwoDigits(n) == Char(Digits, (n \div 10) + 1) \o Char(Digits, (n % 10) + 1)

\* C20: for hours 0..24 and minutes 0..59 given as integer texts,
\* minutes_to_hhmm of the total hm_to_minutes returns is the text "HH:MM" of
\* those hours and minutes, two digits each ("2" and "5" give 125 and
\* "02:05"); for every total t in 0..1440 hhmm_to_minutes of
\* minutes_to_hhmm(t) is t.
C20_ClockRoundTrip ==
    /\ (/\ op = "minutes_to_hhmm"
        /\ IsIntLiteral(arg.hours_text) /\ IntValue(arg.hours_text) \in 0..24
        /\ IsIntLiteral(arg.minutes_text) /\ IntValue(arg.minutes_text) \in 0..59)
          => ret = StrV(TwoDigits(IntValue(arg.hours_text)) \o ":"
                            \o TwoDigits(IntValue(arg.minutes_text)))
    /\ (op = "hhmm_to_minutes" /\ "total_minutes" \in DOMAIN arg
           /\ arg.total_minutes \in 0..1440)
          => ret = IntV(arg.total_minutes)

\* "2" hours and "5" minutes were converted to 125 and then to "02:05"
C20_Witness ==
    /\ op = "minutes_to_hhmm"
    /\ arg.hours_text = "2"
    /\ arg.minutes_text = "5"
    /\ ret = StrV("02:05")

\* what the claim's reading of minutes_to_human writes for total t >= 0, the
\* minutes in abbreviated form carrying the unit minute_unit
HumanText(t, abbreviated, minute_unit) ==
    LET h == t \div 60
        m == t % 60
        hours == IF abbreviated THEN IntToText(h) \o "h"
                 ELSE IF h = 1 THEN "1 hour" ELSE IntToText(h) \o " hours"
        minutes == IF abbreviated THEN IntToText(m) \o minute_unit
                   ELSE IF m = 1 THEN "1 minute" ELSE IntToText(m) \o " minutes"
    IN  CASE h = 0 /\ m = 0 -> IF abbreviated THEN "0min" ELSE "0 minutes"
          [] h = 0 /\ m > 0 -> minutes
          [] h > 0 /\ m = 0 -> hours
          [] OTHER -> hours \o " " \o minutes

C22_FirstSubmissionStored ==
    [][/\ (op' = "submit" /\ DOMAIN errors' = {} /\ csv.rows = <<>>) =>
            /\ ret' = "inserted"
            /\ Len(csv'.rows) = 1
            /\ \A j \in 1..Len(_FIELDNAMES) :
                  csv'.rows[1][j] = PyStr(entry'[_FIELDNAMES[j]])
       /\ (op = "submit" /\ ret = "inserted" /\ Len(csv.rows) = 1 /\ op' = "read") =>
            /\ csv' = csv
            /\ Len(listing') = 1
            /\ DOMAIN listing'[1] = EntryFields
            /\ \A k \in EntryFields : listing'[1][k] = StrV(PyStr(entry[k]))]_vars

\* the payload of the specification's example was submitted on a store
\* that held the header only
C22_Witness ==
    /\ op = "submit"
    /\ payload = PayloadA
    /\ pre.exists /\ pre.rows = <<>>
    /\ ret = "inserted"
    /\ csv.rows = <<<<"2024-06-15", "450", "45", "8.0", "happy", "jogging, reading", "">>>>

\* the date text the last call was given to upsert, if it was an upsert_entry
\* call (direct or from the form)
UpsertedDates ==
    IF op \in {"upsert", "submit"} /\ "date" \in DOMAIN arg
    THEN {PyStr(arg["date"])} ELSE {}

\* the lines of after that have date d are the lines of before that have it,
\* in the same order, for every date d of before outside skip
LinesKept(before, after, skip) ==
    \A d \in {before[i][1] : i \in 1..Len(before)} \ skip :
        SelectSeq(after, LAMBDA line : line[1] = d)
            = SelectSeq(before, LAMBDA line : line[1] = d)

\* C23: whatever sequence of upsert_entry and sort_csv_by_date calls runs,
\* each call leaves every row whose date is not the date being upserted in
\* the store with its seven values (and the rows of one date in their
\* order), and no date of the store disappears.
C23_NoRowLost ==
    /\ LinesKept(RowsOf(pre), RowsOf(csv), UpsertedDates)
    /\ DatesOf(pre) \subseteq DatesOf(csv)

\* an entry of a new date was upserted into a store of two rows of other
\* dates, one of them no YYYY-MM-DD, and the store has the three rows
C23_Witness ==
    /\ op = "upsert"
    /\ arg = EntryA
    /\ ret = "inserted"
    /\ DatesOf(pre) = {"2023-02-28", "June 1"}
    /\ DatesOf(csv) = {"2023-02-28", "2024-06-15", "June 1"}

\* the day number a text YYYY-MM-DD of digits stands for, counted so that a
\* later day of the calendar has a larger number
CalendarRank(text) ==
    (DigitsValue(SubSeq(text, 1, 4)) * 372)
        + (DigitsValue(SubSeq(text, 6, 7)) * 31)
        + DigitsValue(SubSeq(text, 9, 10))

\* C24: every date create_daily_entry returns has ten characters: the year
\* in four digits, 1..9999, the month in two, the day in two; so in a store
\* fed by validated entries alone the order of the rows, which upsert_entry
\* keeps by comparing the texts, is the order of the calendar: no two
\* stored dates are ordered one way as texts and the other way as days.
C24_TextOrderIsCalendarOrder ==
    /\ (op = "submit" /\ DOMAIN errors = {}) =>
          /\ entry.date.t = "str"
          /\ Len(entry.date.s) = 10
          /\ Char(entry.date.s, 5) = "-" /\ Char(entry.date.s, 8) = "-"
          /\ AllDigits(SubSeq(entry.date.s, 1, 4))
          /\ AllDigits(SubSeq(entry.date.s, 6, 7))
          /\ AllDigits(SubSeq(entry.date.s, 9, 10))
          /\ DigitsValue(SubSeq(entry.date.s, 1, 4)) \in 1..9999
          /\ DigitsValue(SubSeq(entry.date.s, 6, 7)) \in 1..12
          /\ DigitsValue(SubSeq(entry.date.s, 9, 10)) \in 1..31
    /\ \A i, j \in 1..Len(csv.rows) :
          /\ StrLess(csv.rows[i][1], csv.rows[j][1])
                <=> CalendarRank(csv.rows[i][1]) < CalendarRank(csv.rows[j][1])
          /\ i < j => CalendarRank(csv.rows[i][1]) < CalendarRank(csv.rows[j][1])

\* the years 999, 1000 and 1 were submitted in that order and are stored in
\* the order of the calendar
C24_Witness ==
    /\ op = "submit"
    /\ ret = "inserted"
    /\ entry.date.s = "0001-01-01"
    /\ Len(csv.rows) = 3
    /\ csv.rows[1][1] = "0001-01-01"
    /\ csv.rows[2][1] = "0999-12-31"
    /\ csv.rows[3][1] = "1000-01-01"

(***************************************************************************)
(* Properties of write_entries followed statement by statement             *)
(***************************************************************************)

\* the lines write_entries was called to write
NewLines == [i \in 1..Len(listing) |-> CsvLine(listing[i])]

\* sequence a is the head of sequence b
IsPrefix(a, b) == Len(a) <= Len(b) /\ a = SubSeq(b, 1, Len(a))

BothReturned == \A c \in Callers : ret[c] \in {"inserted", "updated"}

\* the two entries have different dates, neither of them in the store at the start
TwoNewDates ==
    /\ arg[1]["date"] # arg[2]["date"]
    /\ \A c \in Callers : arg[c]["date"].s \notin DatesOf(pre)

\* C26: nothing separates the read of upsert_entry from its write. When two
\* upserts of two different new dates both read before either writes, both
\* return "inserted" and the store ends with the entry of the later writer
\* and without the other entry; when one call runs after the other has
\* returned, the store ends with both entries. The rows the store had at
\* the start stay in either case.
C26_LostUpsert ==
    (BothReturned /\ TwoNewDates) =>
        \A c, d \in Callers :
            (c # d /\ entry = arg[d]) =>
                /\ listing[d] = read_entries(pre)
                      => /\ ret[c] = "inserted" /\ ret[d] = "inserted"
                         /\ arg[d]["date"].s \in DatesOf(csv)
                         /\ arg[c]["date"].s \notin DatesOf(csv)
                         /\ Len(RowsOf(csv)) = Len(RowsOf(pre)) + 1
                /\ listing[d] # read_entries(pre)
                      => /\ ret[c] = "inserted" /\ ret[d] = "inserted"
                         /\ arg[d]["date"].s \in DatesOf(csv)
                         /\ arg[c]["date"].s \in DatesOf(csv)
                         /\ Len(RowsOf(csv)) = Len(RowsOf(pre)) + 2
                         /\ csv = upsert_entry(upsert_entry(pre, arg[c]).file, arg[d]).file
                /\ DatesOf(pre) \subseteq DatesOf(csv)

\* both callers read the empty store, caller 1 wrote 2024-06-15, then caller
\* 2 wrote 2023-02-28: both got "inserted" and the store has one row
C26_Witness ==
    /\ BothReturned
    /\ arg[1] = EntryA /\ arg[2] = EntryEarlier
    /\ listing[1] = <<>> /\ listing[2] = <<>>
    /\ entry = EntryEarlier
    /\ ret[1] = "inserted" /\ ret[2] = "inserted"
    /\ RowsOf(csv) = <<CsvLine(EntryEarlier)>>

(***************************************************************************)
(* Properties of the date the form stores                                  *)
(***************************************************************************)

\* the month the typed month text spells, 0 when it spells none
SpelledMonth ==
    IF \E i \in 1..12 : Spells(payload.date_month_text, i)
    THEN CHOOSE i \in 1..12 : Spells(payload.date_month_text, i)
    ELSE 0

\* the typed texts spell a day of the calendar
SpellsRealDay ==
    /\ IsIntLiteral(payload.date_day_text)
    /\ IsIntLiteral(payload.date_year_text)
    /\ SpelledMonth # 0
    /\ TypedYear \in 1..9999
    /\ TypedDay \in 1..CalendarDays(TypedYear, SpelledMonth)

\* the text YYYY-MM-DD of the day the typed texts spell
SpelledDate ==
    TwoDigits(TypedYear \div 100) \o TwoDigits(TypedYear % 100) \o "-"
        \o TwoDigits(SpelledMonth) \o "-" \o TwoDigits(TypedDay)

\* C27: valid payloads that spell one day of the calendar in different
\* texts (the month by name, abbreviation or number, in any case, padded or
\* not; the day and the year with leading zeros, a plus sign or spaces
\* around) give the same date text; the second such submission returns
\* "updated", and the store never has two rows for one day.
C27_OneRowPerDay ==
    /\ (op = "submit" /\ SpellsRealDay) =>
          /\ DOMAIN errors = {}
          /\ entry.date = StrV(SpelledDate)
          /\ ret = (IF SpelledDate \in DatesOf(pre) THEN "updated" ELSE "inserted")
          /\ Len(RowsOfDate(csv, SpelledDate)) = 1
    /\ \A i, j \in 1..Len(csv.rows) :
          i # j => CalendarRank(csv.rows[i][1]) # CalendarRank(csv.rows[j][1])

\* 9 September 2024 was stored, and then submitted as " 9 ", "SEPT", "02024":
\* the row was replaced
C27_Witness ==
    /\ op = "submit"
    /\ payload.date_day_text = " 9 "
    /\ payload.date_month_text = "SEPT"
    /\ payload.date_year_text = "02024"
    /\ payload.mood_scale_text = "3"
    /\ ret = "updated"
    /\ RowsOf(pre) = <<<<"2024-09-09", "450", "45", "8.0", "happy", "jogging, reading", "">>>>
    /\ RowsOf(csv) = <<<<"2024-09-09", "450", "45", "3.0", "happy", "jogging, reading", "">>>>

(***************************************************************************)
(* Properties of the row count                                             *)
(***************************************************************************)

\* C28: on any store, also one edited by hand that has several rows of one
\* date, an upsert_entry that returns "updated" leaves the number of rows as
\* it was and one that returns "inserted" makes it one more; the number of
\* rows never goes down and no date has fewer rows than before.
C28_RowCount ==
    op = "upsert" =>
        /\ ret = "updated" => Len(RowsOf(csv)) = Len(RowsOf(pre))
        /\ ret = "inserted" => Len(RowsOf(csv)) = Len(RowsOf(pre)) + 1
        /\ Len(RowsOf(csv)) >= Len(RowsOf(pre))
        /\ \A d \in DatesOf(pre) : Len(RowsOfDate(csv, d)) >= Len(RowsOfDate(pre, d))

\* an entry of 2024-06-15 was upserted into a store of three rows, two of
\* them of that date: three rows are left, two of them of that date
C28_Witness ==
    /\ op = "upsert"
    /\ arg = EntryB
    /\ ret = "updated"
    /\ pre = ShuffledFile
    /\ RowsOf(csv) = <<CsvLine(EntryEarlier), CsvLine(EntryB), CsvLine(EntryB)>>

(***************************************************************************)
(* Properties of upserts one after another                                 *)
(***************************************************************************)

\* the entries handed to upsert_entry whose date is a text
TextDated == {e \in UpsertEntries : "date" \in DOMAIN e /\ e["date"].t = "str"}

\* the store after upserting first e1 and then e2 into f
UpsertedBoth(f, e1, e2) == upsert_entry(upsert_entry(f, e1).file, e2).file

\* once[e] is what upsert_entry(csv, e) gave: a second upsert, of another date
\* or of the same entry, is made on the file it left
OrderAndRepeat(once) ==
    /\ \A e1, e2 \in TextDated :
          e1["date"] # e2["date"] =>
             upsert_entry(once[e1].file, e2).file = upsert_entry(once[e2].file, e1).file
    /\ \A e \in TextDated :
          upsert_entry(once[e].file, e) = [file |-> once[e].file, action |-> "updated"]

\* C29: on a store built by upserts, two entries of different dates leave the
\* same file (rows and order) whichever is upserted first, and an entry
\* upserted a second time right after the first returns "updated" and leaves
\* the file of the first upsert.
C29_OrderAndRepeat == OrderAndRepeat([e \in TextDated |-> upsert_entry(csv, e)])

\* the entry of 2024-06-15 was upserted again right after itself into a store
\* that also holds 2023-02-28: it returned "updated" and the file is as it was
C29_Witness ==
    /\ op = "upsert"
    /\ arg = EntryA
    /\ ret = "updated"
    /\ pre = csv
    /\ csv.rows = <<CsvLine(EntryEarlier), CsvLine(EntryA)>>
    /\ UpsertedBoth(NoFile, EntryA, EntryEarlier) = csv
    /\ UpsertedBoth(NoFile, EntryEarlier, EntryA) = csv

(***************************************************************************)
(* Properties of the sleep and exercise times                              *)
(***************************************************************************)

\* the hours text h and the minutes text m are refused: both blank, or one that
\* is not blank is no integer, or the total is not within 0..1440
TimeRefused(h, m) ==
    IF IsBlank(h) /\ IsBlank(m) THEN TRUE
    ELSE IF ~IsBlank(h) /\ ~IsIntLiteral(h) THEN TRUE
    ELSE IF ~IsBlank(m) /\ ~IsIntLiteral(m) THEN TRUE
    ELSE TotalOf(h, m) \notin 0..MaxMinutes

\* the numbers the two texts stand for are no clock reading although the total
\* is within 0..1440: a negative number, or 60 minutes or more
OffClock(h, m) ==
    /\ ~TimeRefused(h, m)
    /\ ComponentOf(h) < 0 \/ ComponentOf(m) < 0 \/ ComponentOf(m) >= 60

\* C30: create_daily_entry records sleep_time (and exercise_time) exactly when
\* both texts are blank, or a text that is not blank is no integer, or
\* hours*60+minutes is outside 0..1440; hours and minutes are not checked one
\* by one, so a total within range is accepted and recorded whatever the two
\* numbers are.
C30_OnlyTotalChecked ==
    op = "submit" =>
        /\ "sleep_time" \in DOMAIN errors
              <=> TimeRefused(payload.sleep_hours_text, payload.sleep_minutes_text)
        /\ "exercise_time" \in DOMAIN errors
              <=> TimeRefused(payload.exercise_hours_text, payload.exercise_minutes_text)
        /\ DOMAIN errors = {} =>
              /\ entry.sleep_minutes =
                    IntV(TotalOf(payload.sleep_hours_text, payload.sleep_minutes_text))
              /\ entry.exercise_minutes =
                    IntV(TotalOf(payload.exercise_hours_text, payload.exercise_minutes_text))

\* sleep of -1 hours and 100 minutes was submitted: no error, 40 minutes recorded
C30_Witness ==
    /\ op = "submit"
    /\ payload.sleep_hours_text = "-1"
    /\ payload.sleep_minutes_text = "100"
    /\ OffClock(payload.sleep_hours_text, payload.sleep_minutes_text)
    /\ DOMAIN errors = {}
    /\ entry.sleep_minutes = IntV(40)
    /\ ret = "inserted"

====
